---- MODULE Spec2Model ----
(***************************************************************************)
(* A model of the daily-memo save path of the memos web client            *)
(* (dailyMemoService / atomicMemoService) and of the record service it     *)
(* talks to, of the two checklist normalizers on their own, and of the     *)
(* grouped list (useGroupedMemos).                                         *)
(*                                                                         *)
(* Text is a sequence of one-character strings.  The letters "m", "n",    *)
(* "p", "q" stand for arbitrary characters that are neither whitespace   *)
(* nor part of a markdown marker.                                         *)
(***************************************************************************)
EXTENDS Integers, Sequences, FiniteSets, TLC

VARIABLES
    now,      \* wall clock, epoch seconds
    tz,       \* UTC offset of the browser's local zone, seconds
    memos,    \* the record service's store, in listing order
    calls,    \* the save calls issued so far, in issue order
    editor,   \* a text being typed and what the normalizers made of it
    page,     \* the records handed to the grouped list and its groups
    notes,    \* the annotation hook of one record: its listing and mutations
    view      \* one record as its view shows it, and the updates it issued

vars == <<now, tz, memos, calls, editor, page, notes, view>>

(***************************************************************************)
(* Bounds of the model.                                                    *)
(***************************************************************************)
MaxCalls == 2

\* pieces of text typed into the editor before it is normalized
MaxTokens == 4

\* records handed to the grouped list
MaxRecords == 3

(***************************************************************************)
(* String primitives of the JavaScript runtime.                            *)
(***************************************************************************)
WhiteSpace == {" ", "\n", "\t"}

RECURSIVE TrimStart(_)
TrimStart(s) ==
    IF s # <<>> /\ Head(s) \in WhiteSpace THEN TrimStart(Tail(s)) ELSE s

RECURSIVE TrimEnd(_)
TrimEnd(s) ==
    IF s # <<>> /\ s[Len(s)] \in WhiteSpace
    THEN TrimEnd(SubSeq(s, 1, Len(s) - 1))
    ELSE s

Trim(s) == TrimEnd(TrimStart(s))

StartsWith(s, p) == Len(p) <= Len(s) /\ SubSeq(s, 1, Len(p)) = p

Includes(s, c) == \E i \in 1..Len(s) : s[i] = c

Slice(s, n) == SubSeq(s, n + 1, Len(s))

\* first index at which p occurs in s, 0 when it does not occur
IndexOf(s, p) ==
    LET hits == {i \in 1..(Len(s) - Len(p) + 1) : SubSeq(s, i, i + Len(p) - 1) = p}
    IN  IF hits = {} THEN 0 ELSE CHOOSE i \in hits : \A j \in hits : i <= j

DigitChars == <<"0", "1", "2", "3", "4", "5", "6", "7", "8", "9">>

Digits == {DigitChars[i] : i \in 1..10}

DigitValue(c) == (CHOOSE i \in 1..10 : DigitChars[i] = c) - 1

Pad2(n) == <<DigitChars[(n \div 10) + 1], DigitChars[(n % 10) + 1]>>

Pad4(n) == Pad2(n \div 100) \o Pad2(n % 100)

RECURSIVE DecimalOf(_)
DecimalOf(n) ==
    IF n < 10 THEN <<DigitChars[n + 1]>>
    ELSE DecimalOf(n \div 10) \o <<DigitChars[(n % 10) + 1]>>

RECURSIVE ParseDecimal(_)
ParseDecimal(s) ==
    IF s = <<>> THEN 0
    ELSE 10 * ParseDecimal(SubSeq(s, 1, Len(s) - 1)) + DigitValue(s[Len(s)])

(***************************************************************************)
(* Calendar arithmetic of dayjs in a zone with a fixed UTC offset.         *)
(***************************************************************************)
SecondsPerDay == 86400

LocalDay(t, zone) == (t + zone) \div SecondsPerDay

\* dayjs(t).startOf("day").valueOf() / 1000
StartOfDay(t, zone) == LocalDay(t, zone) * SecondsPerDay - zone

\* proleptic Gregorian date of a day number counted from 1970-01-01
CivilFromDays(days) ==
    LET z   == days + 719468
        era == z \div 146097
        doe == z - era * 146097
        yoe == (doe - doe \div 1460 + doe \div 36524 - doe \div 146096) \div 365
        doy == doe - (365 * yoe + yoe \div 4 - yoe \div 100)
        mp  == (5 * doy + 2) \div 153
        d   == doy - (153 * mp + 2) \div 5 + 1
        m   == IF mp < 10 THEN mp + 3 ELSE mp - 9
        y   == yoe + era * 400 + (IF m <= 2 THEN 1 ELSE 0)
    IN  [year |-> y, month |-> m, day |-> d]

\* dayjs(t).format("YYYY-MM-DD")
FormatDate(t, zone) ==
    LET c == CivilFromDays(LocalDay(t, zone))
    IN  Pad4(c.year) \o <<"-">> \o Pad2(c.month) \o <<"-">> \o Pad2(c.day)

DAILY_TITLE_PREFIX == <<"#", " ">>

getDailyTitle(t, zone) == DAILY_TITLE_PREFIX \o FormatDate(t, zone)

\* a variant that accepts the title of any day
isDailyMemoAnyDate(memo, t, zone) ==
    StartsWith(Trim(memo.content), DAILY_TITLE_PREFIX)

isDailyMemoForDate(memo, t, zone) ==
    StartsWith(Trim(memo.content), getDailyTitle(t, zone))

(***************************************************************************)
(* extractUserIdFromName: the first match of /users\/(\d+)/.               *)
(***************************************************************************)
UsersSlash == <<"u", "s", "e", "r", "s", "/">>

RECURSIVE LeadingDigits(_)
LeadingDigits(s) ==
    IF s # <<>> /\ Head(s) \in Digits
    THEN <<Head(s)>> \o LeadingDigits(Tail(s))
    ELSE <<>>

extractUserIdFromName(name) ==
    LET hits == {i \in 1..(Len(name) - 5) :
                    /\ SubSeq(name, i, i + 5) = UsersSlash
                    /\ LeadingDigits(Slice(name, i + 5)) # <<>>}
    IN  IF hits = {} THEN <<>>
        ELSE LET i == CHOOSE k \in hits : \A j \in hits : k <= j
             IN  LeadingDigits(Slice(name, i + 5))

(***************************************************************************)
(* The two checklist normalizers.                                          *)
(***************************************************************************)
TodoOpen == <<"-", " ", "[", " ", "]">>
TodoDoneLower == <<"-", " ", "[", "x", "]">>
TodoDoneUpper == <<"-", " ", "[", "X", "]">>
TodoPrefix == <<"-", " ", "[", " ", "]", " ">>
DashBullet == <<"-", " ">>
StarBullet == <<"*", " ">>

formatTodoContent(content) ==
    LET trimmed == Trim(content)
    IN  IF StartsWith(trimmed, TodoOpen) \/ StartsWith(trimmed, TodoDoneLower)
        THEN trimmed
        ELSE IF StartsWith(trimmed, DashBullet)
        THEN TodoPrefix \o Slice(trimmed, 2)
        ELSE IF Includes(trimmed, "\n")
        THEN trimmed
        ELSE TodoPrefix \o trimmed

formatAsTodo(content) ==
    LET trimmed == Trim(content)
    IN  IF trimmed = <<>>
        THEN trimmed
        ELSE IF \/ StartsWith(trimmed, TodoOpen)
                \/ StartsWith(trimmed, TodoDoneLower)
                \/ StartsWith(trimmed, TodoDoneUpper)
        THEN trimmed
        ELSE IF StartsWith(trimmed, DashBullet)
        THEN TodoPrefix \o Slice(trimmed, 2)
        ELSE IF StartsWith(trimmed, StarBullet)
        THEN TodoPrefix \o Slice(trimmed, 2)
        ELSE TodoPrefix \o trimmed

(***************************************************************************)
(* Inputs: the signed-in users, the editor states a caller may save and    *)
(* the instants the wall clock passes through (local wall-clock seconds    *)
(* of 2026-01-02 23:59:59 and 2026-01-03 00:00:01).                        *)
(***************************************************************************)
Users == {1, 2}

TimeZones == {28800}

LocalInstants ==
    << 20455 * SecondsPerDay + 86399,
       20456 * SecondsPerDay + 1 >>

Instant(k, zone) == LocalInstants[k] - zone

NameOfUser(u) == UsersSlash \o DecimalOf(u)

PlainState ==
    [ content    |-> <<"m", "n">>,
      localFiles |-> <<>>,
      metadata   |-> [ attachments |-> <<>>, visibility |-> "PRIVATE",
                       relations |-> <<>>, location |-> "none" ] ]

BulletState ==
    [ content    |-> <<" ", "-", " ", "p">>,
      localFiles |-> <<"f1">>,
      metadata   |-> [ attachments |-> <<"a0">>, visibility |-> "PUBLIC",
                       relations |-> <<"r1">>, location |-> "home" ] ]

\* two lines typed with Enter between them, and a file
LinesState ==
    [ content    |-> <<"p", "\n", "q">>,
      localFiles |-> <<"f1">>,
      metadata   |-> [ attachments |-> <<"a0">>, visibility |-> "PUBLIC",
                       relations |-> <<"r1">>, location |-> "home" ] ]

BlankState ==
    [ content    |-> <<" ", "\n">>,
      localFiles |-> <<>>,
      metadata   |-> [ attachments |-> <<>>, visibility |-> "PRIVATE",
                       relations |-> <<>>, location |-> "none" ] ]

EarlierState ==
    [ content    |-> <<"q">>,
      localFiles |-> <<>>,
      metadata   |-> [ attachments |-> <<"a9">>, visibility |-> "PROTECTED",
                       relations |-> <<>>, location |-> "work" ] ]

SaveInputs ==
    { [service |-> "daily",  user |-> 1, enabled |-> TRUE,  state |-> PlainState],
      [service |-> "daily",  user |-> 1, enabled |-> TRUE,  state |-> BulletState],
      [service |-> "daily",  user |-> 2, enabled |-> TRUE,  state |-> BlankState],
      [service |-> "daily",  user |-> 1, enabled |-> FALSE, state |-> PlainState],
      [service |-> "atomic", user |-> 1, enabled |-> TRUE,  state |-> LinesState],
      [service |-> "atomic", user |-> 1, enabled |-> TRUE,  state |-> BlankState],
      [service |-> "atomic", user |-> 1, enabled |-> FALSE, state |-> PlainState] }

(***************************************************************************)
(* The collaborators: the upload service and the record service.           *)
(***************************************************************************)
NetworkError == "unavailable"

\* uploadService.uploadFiles: one attachment reference per file, in order
uploadFiles(files) == [i \in 1..Len(files) |-> <<"attachments", files[i]>>]

Take(s, n) == IF Len(s) <= n THEN s ELSE SubSeq(s, 1, n)

\* the CEL filter creator_id == U && created_ts >= S && created_ts < E
MatchesFilter(m, filter) ==
    /\ m.creatorId = ParseDecimal(filter.userId)
    /\ m.createdTs >= filter.startOfDayTs
    /\ m.createdTs < filter.endOfDayTs

listMemos(store, filter, pageSize) ==
    Take(SelectSeq(store, LAMBDA m : MatchesFilter(m, filter)), pageSize)

\* createMemo: the service assigns the identity, the creator and the times
\* (writers is history: the calls whose requests wrote the record, in order)
createMemo(store, user, memo, t, who) ==
    [ name        |-> Len(store) + 1,
      writers     |-> <<who>>,
      creatorId   |-> user,
      createdTs   |-> t,
      updatedTs   |-> t,
      content     |-> memo.content,
      visibility  |-> memo.visibility,
      attachments |-> memo.attachments,
      relations   |-> memo.relations,
      location    |-> memo.location ]

\* the values create(MemoSchema, ...) gives the fields it is not handed
MemoDefaults ==
    [ content |-> <<>>, attachments |-> <<>>, relations |-> <<>>,
      visibility |-> "VISIBILITY_UNSPECIFIED", location |-> "none" ]

FieldOf(memo, f) == IF f \in DOMAIN memo THEN memo[f] ELSE MemoDefaults[f]

\* updateMemo: only the fields named by the mask are written
updateMemo(old, memo, paths, t, who) ==
    [ old EXCEPT
        !.writers     = Append(@, who),
        !.content     = IF "content" \in paths THEN FieldOf(memo, "content") ELSE @,
        !.attachments = IF "attachments" \in paths THEN FieldOf(memo, "attachments") ELSE @,
        !.visibility  = IF "visibility" \in paths THEN FieldOf(memo, "visibility") ELSE @,
        !.relations   = IF "relations" \in paths THEN FieldOf(memo, "relations") ELSE @,
        !.location    = IF "location" \in paths THEN FieldOf(memo, "location") ELSE @,
        !.updatedTs   = IF "update_time" \in paths THEN t ELSE @ ]

IndexOfName(store, name) ==
    CHOOSE k \in 1..Len(store) : store[k].name = name

(***************************************************************************)
(* A save call.  pc is the await the call is suspended at ("upload",       *)
(* "list", "mutate"; "listed" when the listing has been answered and the   *)
(* answer is on its way back) or how it ended ("returned" without doing    *)
(* anything, "done", "failed").  net lists the requests the call has       *)
(* issued.  Three fields are history: issuedWith, the daily saves of the   *)
(* same creator that had not completed their locate step when this call    *)
(* was issued; servedAt, when the mutation was answered; faults, the       *)
(* awaits at which a collaborator failed.                                  *)
(***************************************************************************)
PAGE_SIZE == 100

\* a variant whose mask leaves the content out
UPDATE_MASK_WITHOUT_CONTENT == {"attachments", "update_time"}

\* a variant whose mask names the visibility as well
UPDATE_MASK_WITH_VISIBILITY == {"content", "attachments", "update_time", "visibility"}

UPDATE_MASK_PATHS == {"content", "attachments", "update_time"}

NoChanges(service) ==
    IF service = "daily"
    THEN [memoName |-> <<>>, hasChanges |-> FALSE, isNewDaily |-> FALSE]
    ELSE [memoNames |-> <<>>, count |-> 0, hasChanges |-> FALSE]

LocatePending(c) ==
    c.service = "daily" /\ c.enabled /\ c.pc \in {"upload", "list", "listed"}

BlankCall(in) ==
    [ service        |-> in.service,
      user           |-> in.user,
      creatorName    |-> IF "creatorName" \in DOMAIN in THEN in.creatorName
                        ELSE NameOfUser(in.user),
      enabled        |-> in.enabled,
      state          |-> in.state,
      issuedWith     |-> {},
      faults         |-> {},
      response       |-> <<>>,
      pc             |-> "returned",
      newAttachments |-> <<>>,
      today          |-> 0,
      filter         |-> <<>>,
      located        |-> <<>>,
      req            |-> <<>>,
      servedAt       |-> 0,
      result         |-> <<>>,
      error          |-> "",
      net            |-> <<>> ]

Returned(c, result) == [c EXCEPT !.pc = "returned", !.result = <<result>>]

Awaiting(c, what) == [c EXCEPT !.pc = what, !.net = Append(@, what)]

\* a save that does not look at its mode flag
dailySaveStartAlways(c) == Awaiting(c, "upload")

\* dailyMemoService.save up to its first await
dailySaveStart(c) ==
    IF ~c.enabled
    THEN Returned(c, NoChanges("daily"))
    ELSE Awaiting(c, "upload")

\* atomicMemoService.save up to its first await
atomicSaveStart(c) ==
    IF ~c.enabled
    THEN Returned(c, NoChanges("atomic"))
    ELSE IF Trim(c.state.content) = <<>>
    THEN Returned(c, NoChanges("atomic"))
    ELSE Awaiting(c, "upload")

\* a variant that puts the uploaded references first
allAttachmentsUploadsFirst(c) == c.newAttachments \o c.state.metadata.attachments

allAttachments(c) == c.state.metadata.attachments \o c.newAttachments

\* a variant that puts the new line first
updatedContentPrepending(todayMemo, content) ==
    formatTodoContent(content) \o <<"\n">> \o todayMemo.content

\* a variant that leaves a blank line before the new line
updatedContentDoubleBreak(todayMemo, content) ==
    todayMemo.content \o <<"\n", "\n">> \o formatTodoContent(content)

updatedContent(todayMemo, content) ==
    todayMemo.content \o <<"\n">> \o formatTodoContent(content)

\* a variant with one line break after the title
fullContentSingleBreak(title, content) ==
    title \o <<"\n">> \o formatTodoContent(content)

fullContent(title, content) ==
    title \o <<"\n", "\n">> \o formatTodoContent(content)

\* steps 3a / 3b of dailyMemoService.save: build and send the request
dailyDispatch(c, located, t, zone) ==
    LET request ==
            IF located # <<>>
            THEN [ kind |-> "update",
                   memo |-> [ name        |-> located[1].name,
                              content     |-> updatedContent(located[1], c.state.content),
                              attachments |-> located[1].attachments \o allAttachments(c) ],
                   updateMask |-> UPDATE_MASK_PATHS ]
            ELSE [ kind |-> "create",
                   memo |-> [ content     |-> fullContent(getDailyTitle(t, zone), c.state.content),
                              visibility  |-> c.state.metadata.visibility,
                              attachments |-> allAttachments(c),
                              relations   |-> c.state.metadata.relations,
                              location    |-> c.state.metadata.location ],
                   updateMask |-> {} ]
    IN  [c EXCEPT !.located = located,
                  !.req = <<request>>,
                  !.pc = "mutate",
                  !.net = Append(@, request.kind)]

\* dailyMemoService.save resumed with the uploaded references: it enters
\* findTodayMemo, which reads the clock and sends the listing request
dailyAfterUpload(c, refs, t, zone) ==
    LET c1     == [c EXCEPT !.newAttachments = refs, !.today = t]
        userId == extractUserIdFromName(c.creatorName)
        start  == StartOfDay(t, zone)
    IN  IF userId = <<>>
        THEN dailyDispatch(c1, <<>>, t, zone)
        ELSE [c1 EXCEPT !.filter = <<[ userId       |-> userId,
                                       startOfDayTs |-> start,
                                       endOfDayTs   |-> start + SecondsPerDay ]>>,
                        !.pc = "list",
                        !.net = Append(@, "list")]

\* a variant that takes the last matching record
LastDailyMemo(response, today, zone) ==
    LET hits == {k \in 1..Len(response) : isDailyMemoForDate(response[k], today, zone)}
    IN  IF hits = {} THEN <<>>
        ELSE <<response[CHOOSE k \in hits : \A j \in hits : k >= j]>>

\* response.memos.find(isDailyMemoForDate) || null
FirstDailyMemo(response, today, zone) ==
    LET hits == {k \in 1..Len(response) : isDailyMemoForDate(response[k], today, zone)}
    IN  IF hits = {} THEN <<>>
        ELSE <<response[CHOOSE k \in hits : \A j \in hits : k <= j]>>

\* findTodayMemo resumed with the listing, then save's step 3
dailyAfterList(c, response, t, zone) ==
    dailyDispatch(c, FirstDailyMemo(response, c.today, zone), t, zone)

\* atomicMemoService.save resumed with the uploaded references
atomicAfterUpload(c, refs) ==
    LET c1 == [c EXCEPT !.newAttachments = refs]
        request ==
            [ kind |-> "create",
              memo |-> [ content     |-> formatAsTodo(Trim(c.state.content)),
                         visibility  |-> c.state.metadata.visibility,
                         attachments |-> allAttachments(c1),
                         relations   |-> c.state.metadata.relations,
                         location    |-> c.state.metadata.location ],
              updateMask |-> {} ]
    IN  [c1 EXCEPT !.req = <<request>>,
                   !.pc = "mutate",
                   !.net = Append(@, "create")]

\* an awaited call rejects: neither save catches, the promise rejects
Rejected(c, err) == [c EXCEPT !.pc = "failed", !.error = err]

\* a variant that catches the upload failure and goes on without attachments
ResumeUploadSwallowing(c, outcome, t, zone) ==
    IF c.service = "daily"
    THEN dailyAfterUpload(c, outcome.value, t, zone)
    ELSE atomicAfterUpload(c, outcome.value)

\* await uploadService.uploadFiles(state.localFiles)
ResumeUpload(c, outcome, t, zone) ==
    IF ~outcome.ok
    THEN Rejected(c, outcome.error)
    ELSE IF c.service = "daily"
    THEN dailyAfterUpload(c, outcome.value, t, zone)
    ELSE atomicAfterUpload(c, outcome.value)

\* await memoServiceClient.listMemos(...)
ResumeList(c, outcome, t, zone) ==
    IF ~outcome.ok
    THEN Rejected(c, outcome.error)
    ELSE dailyAfterList(c, outcome.value, t, zone)

\* a variant that sends the request again when it fails
ResumeMutationRetrying(c, outcome) ==
    IF ~outcome.ok
    THEN [c EXCEPT !.net = Append(@, c.req[1].kind)]
    ELSE [c EXCEPT !.pc = "done",
                   !.result = <<[ memoName   |-> outcome.value.name,
                                  hasChanges |-> TRUE,
                                  isNewDaily |-> (c.req[1].kind = "create") ]>>]

\* await memoServiceClient.updateMemo(...) / createMemo(...), and the return
ResumeMutation(c, outcome) ==
    IF ~outcome.ok
    THEN Rejected(c, outcome.error)
    ELSE LET memo == outcome.value
             result ==
                 IF c.service = "daily"
                 THEN [ memoName   |-> memo.name,
                        hasChanges |-> TRUE,
                        isNewDaily |-> (c.req[1].kind = "create") ]
                 ELSE [ memoNames |-> <<memo.name>>, count |-> 1, hasChanges |-> TRUE ]
         IN  [c EXCEPT !.pc = "done", !.result = <<result>>]

Fulfilled(v) == [ok |-> TRUE, value |-> v, error |-> ""]

Failed(err) == [ok |-> FALSE, value |-> <<>>, error |-> err]

(***************************************************************************)
(* The state machine.                                                      *)
(***************************************************************************)
\* the request a daily save of editor state st by user u sends when it runs
\* alone at time t against the store
EarlierRequest(store, u, st, t, zone) ==
    LET c0 == dailySaveStart(BlankCall([ service |-> "daily", user |-> u,
                                         enabled |-> TRUE, state |-> st ]))
        c1 == dailyAfterUpload(c0, uploadFiles(st.localFiles), t, zone)
        c2 == dailyAfterList(c1, listMemos(store, c1.filter[1], PAGE_SIZE), t, zone)
    IN  c2.req[1]

\* the store left behind by one save of user 2 and one of user 1, each run
\* alone during the hour before the first instant of the model
EarlierStore(zone) ==
    LET t  == Instant(1, zone) - 3600
        s1 == <<createMemo(<<>>, 2, EarlierRequest(<<>>, 2, EarlierState, t, zone).memo, t, 0)>>
    IN  Append(s1, createMemo(s1, 1, EarlierRequest(s1, 1, EarlierState, t, zone).memo, t, 0))

\* the same store a little later: user 1 has also written a memo in the
\* ordinary editor, at local midnight, and a save that overlapped the first
\* one has left a second record that begins with the day's title
CrowdedStore(zone) ==
    LET t        == Instant(1, zone) - 3600
        t0       == StartOfDay(Instant(1, zone), zone)
        ordinary == [ content     |-> formatAsTodo(EarlierState.content),
                      visibility  |-> "PRIVATE",
                      attachments |-> <<>>,
                      relations   |-> <<>>,
                      location    |-> "none" ]
        raced    == EarlierRequest(<<>>, 1, PlainState, t, zone).memo
        stored(n, m) == [m EXCEPT !.name = n]
    IN  EarlierStore(zone)
            \o << stored(3, createMemo(<<>>, 1, ordinary, t0, 0)),
                  stored(4, createMemo(<<>>, 1, raced, t, 0)) >>

EditorIdle == [draft |-> <<>>, keys |-> 0, service |-> "none", outs |-> <<>>]

PageIdle == [memos |-> <<>>, at |-> 0, groups |-> <<>>]

NotesIdle ==
    [ memoName |-> 0, serial |-> 0,
      comments |-> [data |-> <<>>, stale |-> FALSE], mutations |-> <<>> ]

ViewIdle == [memo |-> <<>>, readonly |-> FALSE, millis |-> 0, events |-> <<>>]

Init ==
    /\ tz \in TimeZones
    /\ now = Instant(1, tz)
    /\ memos \in {<<>>, CrowdedStore(tz)}
    /\ calls = <<>>
    /\ editor = EditorIdle
    /\ page = PageIdle
    /\ notes = NotesIdle
    /\ view = ViewIdle

Settled(c) == c.pc \in {"returned", "done", "failed"}

Save(in) ==
    /\ Len(calls) < MaxCalls
    /\ LET c == [BlankCall(in) EXCEPT !.issuedWith =
                    IF in.service = "daily" /\ in.enabled
                    THEN {j \in 1..Len(calls) :
                            LocatePending(calls[j]) /\ calls[j].user = in.user}
                    ELSE {}]
       IN  calls' = Append(calls, IF in.service = "daily"
                                  THEN dailySaveStart(c)
                                  ELSE atomicSaveStart(c))
    /\ UNCHANGED <<now, tz, memos, editor, page, notes, view>>

UploadOk(i) ==
    /\ calls[i].pc = "upload"
    /\ calls' = [calls EXCEPT ![i] =
                    ResumeUpload(@, Fulfilled(uploadFiles(calls[i].state.localFiles)),
                                 now, tz)]
    /\ UNCHANGED <<now, tz, memos, editor, page, notes, view>>

UploadFail(i) ==
    /\ calls[i].pc = "upload"
    /\ calls' = [calls EXCEPT ![i] =
                    ResumeUpload([@ EXCEPT !.faults = @ \cup {"upload"}],
                                 Failed(NetworkError), now, tz)]
    /\ UNCHANGED <<now, tz, memos, editor, page, notes, view>>

\* the record service answers the listing from the store as it is now
ListServe(i) ==
    /\ calls[i].pc = "list"
    /\ calls' = [calls EXCEPT ![i] =
                    [@ EXCEPT !.pc = "listed",
                              !.response = listMemos(memos, calls[i].filter[1], PAGE_SIZE)]]
    /\ UNCHANGED <<now, tz, memos, editor, page, notes, view>>

\* the answer reaches the caller, which goes on to its create or update
ListOk(i) ==
    /\ calls[i].pc = "listed"
    /\ calls' = [calls EXCEPT ![i] =
                    ResumeList([@ EXCEPT !.response = <<>>],
                               Fulfilled(calls[i].response), now, tz)]
    /\ UNCHANGED <<now, tz, memos, editor, page, notes, view>>

ListFail(i) ==
    /\ calls[i].pc = "list"
    /\ calls' = [calls EXCEPT ![i] =
                    ResumeList([@ EXCEPT !.faults = @ \cup {"list"}],
                               Failed(NetworkError), now, tz)]
    /\ UNCHANGED <<now, tz, memos, editor, page, notes, view>>

MutateOk(i) ==
    /\ calls[i].pc = "mutate"
    /\ LET r == calls[i].req[1]
           k == IF r.kind = "create" THEN Len(memos) + 1
                ELSE IndexOfName(memos, r.memo.name)
           m == IF r.kind = "create"
                THEN createMemo(memos, calls[i].user, r.memo, now, i)
                ELSE updateMemo(memos[k], r.memo, r.updateMask, now, i)
       IN  /\ memos' = IF r.kind = "create" THEN Append(memos, m)
                       ELSE [memos EXCEPT ![k] = m]
           /\ calls' = [calls EXCEPT ![i] =
                           ResumeMutation([@ EXCEPT !.servedAt = now], Fulfilled(m))]
    /\ UNCHANGED <<now, tz, editor, page, notes, view>>

MutateFail(i) ==
    /\ calls[i].pc = "mutate"
    /\ calls' = [calls EXCEPT ![i] =
                    ResumeMutation([@ EXCEPT !.faults = @ \cup {"mutate"}],
                                   Failed(NetworkError))]
    /\ UNCHANGED <<now, tz, memos, editor, page, notes, view>>

Tick ==
    /\ \E k \in 1..(Len(LocalInstants) - 1) :
          /\ now = Instant(k, tz)
          /\ now' = Instant(k + 1, tz)
    /\ UNCHANGED <<tz, memos, calls, editor, page, notes, view>>

Next ==
    \/ \E in \in SaveInputs : Save(in)
    \/ \E i \in 1..Len(calls) : UploadOk(i)
    \/ \E i \in 1..Len(calls) : UploadFail(i)
    \/ \E i \in 1..Len(calls) : ListServe(i)
    \/ \E i \in 1..Len(calls) : ListOk(i)
    \/ \E i \in 1..Len(calls) : ListFail(i)
    \/ \E i \in 1..Len(calls) : MutateOk(i)
    \/ \E i \in 1..Len(calls) : MutateFail(i)
    \/ Tick

Spec == Init /\ [][Next]_vars

\* the same machine with a caller that awaits each save before the next
SaveAfterSettled(in) ==
    /\ \A j \in 1..Len(calls) : Settled(calls[j])
    /\ Save(in)

NextSeq ==
    \/ \E in \in SaveInputs : SaveAfterSettled(in)
    \/ \E i \in 1..Len(calls) : UploadOk(i)
    \/ \E i \in 1..Len(calls) : UploadFail(i)
    \/ \E i \in 1..Len(calls) : ListServe(i)
    \/ \E i \in 1..Len(calls) : ListOk(i)
    \/ \E i \in 1..Len(calls) : ListFail(i)
    \/ \E i \in 1..Len(calls) : MutateOk(i)
    \/ \E i \in 1..Len(calls) : MutateFail(i)
    \/ Tick

SpecSeq == Init /\ [][NextSeq]_vars

\* a day on which user 1 has already written a page full of memos in the
\* ordinary editor, all of them before the first daily save
BusyStore(zone) ==
    LET t0       == StartOfDay(Instant(1, zone), zone)
        ordinary == [ content     |-> formatAsTodo(EarlierState.content),
                      visibility  |-> "PRIVATE",
                      attachments |-> <<>>,
                      relations   |-> <<>>,
                      location    |-> "none" ]
        first    == createMemo(<<>>, 1, ordinary, t0, 0)
    IN  [n \in 1..PAGE_SIZE |-> [first EXCEPT !.name = n]]

InitBusy ==
    /\ tz \in TimeZones
    /\ now = Instant(1, tz)
    /\ memos = BusyStore(tz)
    /\ calls = <<>>
    /\ editor = EditorIdle
    /\ page = PageIdle
    /\ notes = NotesIdle
    /\ view = ViewIdle

\* sequential saves on the busy day
SpecBusy == InitBusy /\ [][NextSeq]_vars

\* saves of a session whose user is not known to the editor yet: the caller
\* passes options.creatorName || "", and the same save with the name known
UnnamedInputs ==
    { [ service |-> "daily", user |-> 1, enabled |-> TRUE, state |-> PlainState,
        creatorName |-> <<>> ],
      [ service |-> "daily", user |-> 1, enabled |-> TRUE, state |-> BulletState,
        creatorName |-> <<>> ],
      [ service |-> "daily", user |-> 1, enabled |-> TRUE, state |-> PlainState ] }

NextUnnamed ==
    \/ \E in \in UnnamedInputs : SaveAfterSettled(in)
    \/ \E i \in 1..Len(calls) : UploadOk(i)
    \/ \E i \in 1..Len(calls) : UploadFail(i)
    \/ \E i \in 1..Len(calls) : ListServe(i)
    \/ \E i \in 1..Len(calls) : ListOk(i)
    \/ \E i \in 1..Len(calls) : ListFail(i)
    \/ \E i \in 1..Len(calls) : MutateOk(i)
    \/ \E i \in 1..Len(calls) : MutateFail(i)
    \/ Tick

\* sequential saves, some of them without a creator name
SpecUnnamed == Init /\ [][NextUnnamed]_vars

(***************************************************************************)
(* The normalizers on their own: a text is typed piece by piece, then one  *)
(* of the two services normalizes it, and normalizes the outcome again (as *)
(* happens when a normalized line is pasted back and saved).               *)
(***************************************************************************)
Tokens ==
    { <<"-", " ">>, <<"*", " ">>, <<"-">>,
      <<"[", " ", "]">>, <<"[", "x", "]">>, <<"[", "X", "]">>,
      <<" ">>, <<"\n">>, <<"m">> }

Normalizers == {"daily", "atomic"}

Normalize(service, text) ==
    IF service = "daily" THEN formatTodoContent(text) ELSE formatAsTodo(text)

InitNormalize ==
    /\ tz \in TimeZones
    /\ now = Instant(1, tz)
    /\ memos = <<>>
    /\ calls = <<>>
    /\ editor = EditorIdle
    /\ page = PageIdle
    /\ notes = NotesIdle
    /\ view = ViewIdle

Type(tok) ==
    /\ editor.service = "none"
    /\ editor.keys < MaxTokens
    /\ editor' = [editor EXCEPT !.draft = @ \o tok, !.keys = @ + 1]
    /\ UNCHANGED <<now, tz, memos, calls, page, notes, view>>

Format(service) ==
    /\ editor.service = "none"
    /\ editor' = [editor EXCEPT !.service = service,
                                !.outs = <<Normalize(service, editor.draft)>>]
    /\ UNCHANGED <<now, tz, memos, calls, page, notes, view>>

FormatAgain ==
    /\ editor.service # "none"
    /\ Len(editor.outs) = 1
    /\ editor' = [editor EXCEPT !.outs = Append(@, Normalize(editor.service, editor.outs[1]))]
    /\ UNCHANGED <<now, tz, memos, calls, page, notes, view>>

NextNormalize ==
    \/ \E tok \in Tokens : Type(tok)
    \/ \E service \in Normalizers : Format(service)
    \/ FormatAgain

SpecNormalize == InitNormalize /\ [][NextNormalize]_vars

(***************************************************************************)
(* The grouped list (useGroupedMemos).  A date key is parsed back as       *)
(* local midnight of its day; a label is kept as its kind and numbers.     *)
(***************************************************************************)
\* day number, counted from 1970-01-01, of a proleptic Gregorian date
DaysFromCivil(y, m, d) ==
    LET y1  == IF m <= 2 THEN y - 1 ELSE y
        era == y1 \div 400
        yoe == y1 - era * 400
        doy == (153 * (IF m > 2 THEN m - 3 ELSE m + 9) + 2) \div 5 + d - 1
        doe == yoe * 365 + yoe \div 4 - yoe \div 100 + doy
    IN  era * 146097 + doe - 719468

\* dayjs("YYYY-MM-DD")
ParseDate(dateStr) ==
    [ year  |-> ParseDecimal(SubSeq(dateStr, 1, 4)),
      month |-> ParseDecimal(SubSeq(dateStr, 6, 7)),
      day   |-> ParseDecimal(SubSeq(dateStr, 9, 10)) ]

DayNumberOf(dateStr) ==
    LET c == ParseDate(dateStr) IN DaysFromCivil(c.year, c.month, c.day)

\* a variant that takes the day in UTC
getMemoDateKeyUtc(memo, t, zone) ==
    IF memo.displayTime = <<>>
    THEN FormatDate(t, 0)
    ELSE FormatDate(memo.displayTime[1], 0)

getMemoDateKey(memo, t, zone) ==
    IF memo.displayTime = <<>>
    THEN FormatDate(t, zone)
    ELSE FormatDate(memo.displayTime[1], zone)

\* a variant that looks at the year before it looks for yesterday
getDisplayDateYearFirst(dateStr, t, zone) ==
    LET date  == ParseDate(dateStr)
        today == CivilFromDays(LocalDay(t, zone))
    IN  IF DayNumberOf(dateStr) = LocalDay(t, zone)
        THEN [kind |-> "today"]
        ELSE IF date.year # today.year
        THEN [kind |-> "Y-M-D", year |-> date.year, month |-> date.month, day |-> date.day]
        ELSE IF DayNumberOf(dateStr) = LocalDay(t, zone) - 1
        THEN [kind |-> "yesterday"]
        ELSE [kind |-> "M-D", month |-> date.month, day |-> date.day]

getDisplayDate(dateStr, t, zone) ==
    LET date  == ParseDate(dateStr)
        today == CivilFromDays(LocalDay(t, zone))
    IN  IF DayNumberOf(dateStr) = LocalDay(t, zone)
        THEN [kind |-> "today"]
        ELSE IF DayNumberOf(dateStr) = LocalDay(t, zone) - 1
        THEN [kind |-> "yesterday"]
        ELSE IF date.year = today.year
        THEN [kind |-> "M-D", month |-> date.month, day |-> date.day]
        ELSE [kind |-> "Y-M-D", year |-> date.year, month |-> date.month, day |-> date.day]

\* dayjs(date).format("YYYY年M月D日 dddd"), weekday 0 being Sunday
formatFullDate(dateStr) ==
    LET date == ParseDate(dateStr)
    IN  [ year |-> date.year, month |-> date.month, day |-> date.day,
          weekday |-> (DayNumberOf(dateStr) + 4) % 7 ]

\* the number of non-overlapping matches, left to right, of any of the
\* patterns (all of one length)
RECURSIVE CountMatches(_, _)
CountMatches(s, patterns) ==
    LET hits == {i \in 1..Len(s) :
                    \E p \in patterns : i + Len(p) - 1 <= Len(s)
                                         /\ SubSeq(s, i, i + Len(p) - 1) = p}
    IN  IF hits = {} THEN 0
        ELSE LET i == CHOOSE k \in hits : \A j \in hits : k <= j
             IN  1 + CountMatches(Slice(s, i + Len(TodoOpen) - 1), patterns)

countTasks(memo) ==
    [ incomplete |-> CountMatches(memo.content, {TodoOpen}),
      complete   |-> CountMatches(memo.content, {TodoDoneLower, TodoDoneUpper}) ]

\* a variant that puts the record at the front of its bucket
AddToGroupMapInFront(groupMap, dateKey, memo) ==
    IF \E g \in 1..Len(groupMap) : groupMap[g].date = dateKey
    THEN LET g == CHOOSE h \in 1..Len(groupMap) : groupMap[h].date = dateKey
         IN  [groupMap EXCEPT ![g].memos = <<memo>> \o @]
    ELSE Append(groupMap, [date |-> dateKey, memos |-> <<memo>>])

\* groupMap.get(dateKey) || [] ... groupMap.set(dateKey, existing)
AddToGroupMap(groupMap, dateKey, memo) ==
    IF \E g \in 1..Len(groupMap) : groupMap[g].date = dateKey
    THEN LET g == CHOOSE h \in 1..Len(groupMap) : groupMap[h].date = dateKey
         IN  [groupMap EXCEPT ![g].memos = Append(@, memo)]
    ELSE Append(groupMap, [date |-> dateKey, memos |-> <<memo>>])

\* the map after the first n records, its entries in insertion order
RECURSIVE GroupMapOf(_, _, _, _)
GroupMapOf(list, n, t, zone) ==
    IF n = 0 THEN <<>>
    ELSE AddToGroupMap(GroupMapOf(list, n - 1, t, zone),
                       getMemoDateKey(list[n], t, zone), list[n])

RECURSIVE SumOver(_, _)
SumOver(list, field) ==
    IF list = <<>> THEN 0
    ELSE countTasks(Head(list))[field] + SumOver(Tail(list), field)

ToDailyGroup(entry, t, zone) ==
    [ date            |-> entry.date,
      displayDate     |-> getDisplayDate(entry.date, t, zone),
      fullDate        |-> formatFullDate(entry.date),
      memos           |-> entry.memos,
      incompleteCount |-> SumOver(entry.memos, "incomplete"),
      completeCount   |-> SumOver(entry.memos, "complete") ]

\* the order of "-" and the digits under localeCompare
CharRank(c) == IF c = "-" THEN 0 ELSE DigitValue(c) + 1

RECURSIVE localeCompare(_, _)
localeCompare(a, b) ==
    IF a = <<>> /\ b = <<>> THEN 0
    ELSE IF a = <<>> THEN -1
    ELSE IF b = <<>> THEN 1
    ELSE IF CharRank(Head(a)) < CharRank(Head(b)) THEN -1
    ELSE IF CharRank(Head(a)) > CharRank(Head(b)) THEN 1
    ELSE localeCompare(Tail(a), Tail(b))

\* a variant that leaves the groups in the order of the map
SortUnsorted(groups) == groups

\* .sort((a, b) => b.date.localeCompare(a.date)), a stable sort
RECURSIVE SortByDateDescending(_)
SortByDateDescending(groups) ==
    IF groups = <<>> THEN <<>>
    ELSE LET sorted == SortByDateDescending(SubSeq(groups, 1, Len(groups) - 1))
             g      == groups[Len(groups)]
             ahead  == {k \in 1..Len(sorted) : localeCompare(g.date, sorted[k].date) <= 0}
             n      == IF ahead = {} THEN 0
                       ELSE CHOOSE k \in ahead : \A j \in ahead : k >= j
         IN  SubSeq(sorted, 1, n) \o <<g>> \o SubSeq(sorted, n + 1, Len(sorted))

useGroupedMemos(list, t, zone) ==
    LET groupMap == GroupMapOf(list, Len(list), t, zone)
    IN  SortByDateDescending([g \in 1..Len(groupMap) |-> ToDailyGroup(groupMap[g], t, zone)])

\* display times of the records: none, the model's two instants, and the
\* first instant one and two days earlier (2026-01-01 and 2025-12-31)
DisplayTimes(zone) ==
    {<<>>, <<Instant(2, zone)>>}
        \cup {<<Instant(1, zone) - k * SecondsPerDay>> : k \in 0..2}

\* contents of the records: an open item and two finished ones, one per
\* line; a line of prose that mentions the marker of an open item
FeedContents ==
    { TodoPrefix \o <<"p", "\n">>
          \o TodoDoneLower \o <<" ", "m", "\n">> \o TodoDoneUpper \o <<" ", "n">>,
      <<"m", " ">> \o TodoOpen \o <<" ", "n">> }

\* the list is first rendered late on 2026-01-01 or late on 2026-01-02
InitGroup ==
    /\ tz \in TimeZones
    /\ now \in {Instant(1, tz) - SecondsPerDay, Instant(1, tz)}
    /\ memos = <<>>
    /\ calls = <<>>
    /\ editor = EditorIdle
    /\ page = PageIdle
    /\ notes = NotesIdle
    /\ view = ViewIdle

\* the list is rendered with one more record: the groups are recomputed
Receive(displayTime, content) ==
    /\ Len(page.memos) < MaxRecords
    /\ LET list == Append(page.memos, [ name        |-> Len(page.memos) + 1,
                                        displayTime |-> displayTime,
                                        content     |-> content ])
       IN  page' = [memos |-> list, at |-> now, groups |-> useGroupedMemos(list, now, tz)]
    /\ UNCHANGED <<now, tz, memos, calls, editor, notes, view>>

NextGroup ==
    \/ \E displayTime \in DisplayTimes(tz), content \in FeedContents :
          Receive(displayTime, content)
    \/ Tick

SpecGroup == InitGroup /\ [][NextGroup]_vars

(***************************************************************************)
(* The annotation hook (useAnnotations) of one record, against the record  *)
(* service.  An annotation is a comment record of the annotated record.    *)
(* A mutation is "pending" until the service has answered; its promise     *)
(* then is "success" with the answer or "error" with the cause.            *)
(***************************************************************************)
\* mutations issued through one hook
MaxMutations == 2

NotFound == "not_found"

\* create(MemoSchema, init): a message with every field, the ones it is not
\* handed at their defaults
create(init) == [f \in DOMAIN MemoDefaults |-> FieldOf(init, f)]

CommentRelation(parent) == [type |-> "COMMENT", relatedMemo |-> parent]

IsCommentOf(m, parent) ==
    \E k \in 1..Len(m.relations) : m.relations[k] = CommentRelation(parent)

\* listMemoComments: the comments of a record, oldest first
listMemoComments(store, parent) ==
    SelectSeq(store, LAMBDA m : IsCommentOf(m, parent))

\* createMemoComment: the comment is created as a record of its own and
\* related to its parent; serial is the last identity the service gave out
createMemoComment(serial, user, parent, comment, t, who) ==
    [ createMemo(<<>>, user, comment, t, who) EXCEPT
        !.name      = serial + 1,
        !.relations = <<CommentRelation(parent)>> ]

HasName(store, name) == \E k \in 1..Len(store) : store[k].name = name

\* deleteMemo: the record is gone, the others keep their order
deleteMemo(store, name) == SelectSeq(store, LAMBDA m : m.name # name)

\* the request of addMutation with the visibility left to the service
addRequestUnspecified(memoName, content) ==
    [ name    |-> memoName,
      comment |-> create([content |-> content]) ]

\* addMutation.mutationFn: the request it sends
addRequest(memoName, content) ==
    [ name    |-> memoName,
      comment |-> create([content |-> content, visibility |-> "PRIVATE"]) ]

\* the request of updateMutation with a mask that names every field sent
updateRequestWholeMemo(name, content) ==
    [ memo       |-> create([content |-> content]),
      name       |-> name,
      updateMask |-> {"content", "visibility", "attachments"} ]

\* updateMutation.mutationFn: the request it sends
updateRequest(name, content) ==
    [ memo       |-> create([content |-> content]),
      name       |-> name,
      updateMask |-> {"content"} ]

\* deleteMutation.mutationFn: the request it sends
deleteRequest(annotationName) == [name |-> annotationName]

\* the query of the comments is left as it was
keepQueries(comments) == comments

\* queryClient.invalidateQueries(memoKeys.comments(memoName))
invalidateQueries(comments) == [comments EXCEPT !.stale = TRUE]

\* given is history: what the caller handed the hook
Mutation(kind, given, request, caught) ==
    [ kind |-> kind, given |-> given, request |-> request, caught |-> caught,
      status |-> "pending", data |-> <<>>, error |-> "none" ]

\* the promise of mutateAsync is fulfilled, after onSuccess has run
Succeeded(n, i, data) ==
    [ n EXCEPT !.mutations[i].status = "success",
               !.mutations[i].data   = data,
               !.comments            = invalidateQueries(@) ]

\* the promise of mutateAsync is rejected; there is no onError
Errored(n, i, err) ==
    [ n EXCEPT !.mutations[i].status = "error",
               !.mutations[i].error  = err ]

\* a deleteMemo of a record that is gone answered as if it had been there
deleteAnsweredQuietly(n, i, store) ==
    [ next  |-> Succeeded(n, i, <<>>),
      store |-> deleteMemo(store, n.mutations[i].request.name) ]

\* the service answers a deleteMemo
deleteAnswered(n, i, store) ==
    LET name == n.mutations[i].request.name
    IN  IF HasName(store, name)
        THEN [ next  |-> Succeeded(n, i, <<>>),
               store |-> deleteMemo(store, name) ]
        ELSE [ next  |-> Errored(n, i, NotFound), store |-> store ]

\* the service answers an updateMemo
updateAnswered(n, i, store, t) ==
    LET req == n.mutations[i].request
    IN  IF HasName(store, req.name)
        THEN LET k   == IndexOfName(store, req.name)
                 new == updateMemo(store[k], req.memo, req.updateMask, t, i)
             IN  [ next  |-> Succeeded(n, i, <<new>>),
                   store |-> [store EXCEPT ![k] = new] ]
        ELSE [ next  |-> Errored(n, i, NotFound), store |-> store ]

\* the service answers a createMemoComment
addAnswered(n, i, store, t) ==
    LET req == n.mutations[i].request
        new == createMemoComment(n.serial, 1, req.name, req.comment, t, i)
    IN  [ next  |-> [Succeeded(n, i, <<new>>) EXCEPT !.serial = new.name],
          store |-> Append(store, new) ]

\* texts of annotations: a bullet line, which a normalizer would rewrite,
\* and a word
AnnotationTexts == { DashBullet \o <<"m">>, <<"n">> }

ParentVisibilities == {"PUBLIC", "PRIVATE"}

\* record 1 is the annotated record, record 2 belongs to someone else,
\* records 3 and 4 are annotations of record 1; record 3 carries an
\* attachment and refers to record 2
AnnotatedStore(visibility, t) ==
    << [ createMemo(<<>>, 1, create([content |-> <<"p">>, visibility |-> visibility]), t, 0)
           EXCEPT !.name = 1 ],
       [ createMemo(<<>>, 2, create([content |-> <<"q">>, visibility |-> "PUBLIC"]), t, 0)
           EXCEPT !.name = 2 ],
       [ createMemoComment(2, 1, 1,
             create([content |-> <<"q">>, visibility |-> "PRIVATE",
                     attachments |-> <<"a0">>]), t, 0)
           EXCEPT !.relations = Append(@, [type |-> "REFERENCE", relatedMemo |-> 2]) ],
       createMemoComment(3, 1, 1,
           create([content |-> <<"p">>, visibility |-> "PRIVATE"]), t, 0) >>

InitAnnotate ==
    /\ tz \in TimeZones
    /\ now = Instant(1, tz)
    /\ \E visibility \in ParentVisibilities :
          memos = AnnotatedStore(visibility, now)
    /\ calls = <<>>
    /\ editor = EditorIdle
    /\ page = PageIdle
    /\ notes = [ memoName  |-> 1, serial |-> 4,
                 comments  |-> [data |-> listMemoComments(memos, 1), stale |-> FALSE],
                 mutations |-> <<>> ]
    /\ view = ViewIdle

Issue(m) ==
    /\ Len(notes.mutations) < MaxMutations
    /\ notes' = [notes EXCEPT !.mutations = Append(@, m)]
    /\ UNCHANGED <<now, tz, memos, calls, editor, page, view>>

ListedNames == {notes.comments.data[k].name : k \in 1..Len(notes.comments.data)}

\* addAnnotation(content)
AddAnnotation(content) ==
    Issue(Mutation("add", [memoName |-> notes.memoName, content |-> content],
                   addRequest(notes.memoName, content), TRUE))

\* updateAnnotation({name, content}), of an annotation the list shows
UpdateAnnotation(name, content) ==
    /\ name \in ListedNames
    /\ Issue(Mutation("update", [name |-> name, content |-> content],
                      updateRequest(name, content), TRUE))

\* deleteAnnotation(name), of an annotation the list shows: the panel awaits
\* the promise inside try/catch, the slot's button lets go of it
DeleteAnnotation(name, caught) ==
    /\ name \in ListedNames
    /\ Issue(Mutation("delete", [name |-> name], deleteRequest(name), caught))

Answer(i, answered) ==
    /\ notes.mutations[i].status = "pending"
    /\ notes' = answered.next
    /\ memos' = answered.store
    /\ UNCHANGED <<now, tz, calls, editor, page, view>>

AddOk(i) ==
    /\ notes.mutations[i].kind = "add"
    /\ Answer(i, addAnswered(notes, i, memos, now))

UpdateOk(i) ==
    /\ notes.mutations[i].kind = "update"
    /\ Answer(i, updateAnswered(notes, i, memos, now))

DeleteOk(i) ==
    /\ notes.mutations[i].kind = "delete"
    /\ Answer(i, deleteAnswered(notes, i, memos))

\* the request does not reach the service
MutationLost(i) ==
    Answer(i, [next |-> Errored(notes, i, NetworkError), store |-> memos])

\* the invalidated query of the comments is fetched again
Refetch ==
    /\ notes.comments.stale
    /\ notes' = [notes EXCEPT !.comments =
                    [data |-> listMemoComments(memos, notes.memoName), stale |-> FALSE]]
    /\ UNCHANGED <<now, tz, memos, calls, editor, page, view>>

NextAnnotate ==
    \/ \E content \in AnnotationTexts : AddAnnotation(content)
    \/ \E name \in ListedNames, content \in AnnotationTexts : UpdateAnnotation(name, content)
    \/ \E name \in ListedNames, caught \in BOOLEAN : DeleteAnnotation(name, caught)
    \/ \E i \in 1..Len(notes.mutations) : AddOk(i)
    \/ \E i \in 1..Len(notes.mutations) : UpdateOk(i)
    \/ \E i \in 1..Len(notes.mutations) : DeleteOk(i)
    \/ \E i \in 1..Len(notes.mutations) : MutationLost(i)
    \/ Refetch

SpecAnnotate == InitAnnotate /\ [][NextAnnotate]_vars

(***************************************************************************)
(* Vocabulary of the properties.  The two calendar days of the model are   *)
(* written out, so that the properties do not rest on the date arithmetic  *)
(* above.                                                                  *)
(***************************************************************************)
Day1Key == <<"2", "0", "2", "6", "-", "0", "1", "-", "0", "2">>

Day2Key == <<"2", "0", "2", "6", "-", "0", "1", "-", "0", "3">>

DayKeys == {Day1Key, Day2Key}

\* local midnight between the two days is one second before the last instant
DayKeyAt(t) == IF t < Instant(2, tz) - 1 THEN Day1Key ELSE Day2Key

TitleLine(key) == <<"#", " ">> \o key

IsContainer(m, u, key) ==
    m.creatorId = u /\ StartsWith(Trim(m.content), TitleLine(key))

ContainersOf(u, key) == {k \in 1..Len(memos) : IsContainer(memos[k], u, key)}

IsDailySave(c) == c.service = "daily" /\ c.enabled

DailyCalls(u) == {i \in 1..Len(calls) : IsDailySave(calls[i]) /\ calls[i].user = u}

Contribution(c) == formatTodoContent(c.state.content)

\* the listing and the answered mutation of a finished call fell on one day
WithinOneDay(c) == DayKeyAt(c.today) = DayKeyAt(c.servedAt)

Wrote(i, m) == \E n \in 1..Len(m.writers) : m.writers[n] = i

\* a occurs in s and, after it, b occurs
OccursInOrder(s, a, b) ==
    \E p1 \in 1..Len(s), p2 \in 1..Len(s) :
        /\ p1 + Len(a) <= p2
        /\ p2 + Len(b) - 1 <= Len(s)
        /\ SubSeq(s, p1, p1 + Len(a) - 1) = a
        /\ SubSeq(s, p2, p2 + Len(b) - 1) = b

StartedEmpty == \A k \in 1..Len(memos) : memos[k].writers[1] # 0

\* the content a container of (u, key) holds after the finished saves among
\* the first n calls, each appended in call order
RECURSIVE ExpectedContent(_, _, _)
ExpectedContent(u, key, n) ==
    IF n = 0 THEN <<>>
    ELSE LET before == ExpectedContent(u, key, n - 1)
             c      == calls[n]
         IN  IF ~(IsDailySave(c) /\ c.user = u /\ c.pc = "done" /\ DayKeyAt(c.today) = key)
             THEN before
             ELSE IF before = <<>>
             THEN TitleLine(key) \o <<"\n", "\n">> \o Contribution(c)
             ELSE before \o <<"\n">> \o Contribution(c)

C2_ConcurrentSavesOneContainer ==
    \A i \in 1..Len(calls), j \in 1..Len(calls) :
        ( /\ StartedEmpty
          /\ i \in calls[j].issuedWith
          /\ calls[i].pc = "done" /\ calls[j].pc = "done"
          /\ WithinOneDay(calls[i]) /\ WithinOneDay(calls[j])
          /\ DayKeyAt(calls[i].today) = DayKeyAt(calls[j].today) )
        => \E k \in 1..Len(memos) :
              /\ ContainersOf(calls[i].user, DayKeyAt(calls[i].today)) = {k}
              /\ \/ OccursInOrder(memos[k].content, Contribution(calls[i]), Contribution(calls[j]))
                 \/ OccursInOrder(memos[k].content, Contribution(calls[j]), Contribution(calls[i]))

(***************************************************************************)
(* C3.  Saves with the same (creator, day) are serialized: while one is    *)
(* between its locate step and the completion of its create or update, no  *)
(* other save of that key has performed its locate or is in its create or  *)
(* update.                                                                 *)
(***************************************************************************)
C3_SavesSerializedPerKey ==
    \A i \in 1..Len(calls), j \in 1..Len(calls) :
        ( /\ i # j
          /\ IsDailySave(calls[i]) /\ IsDailySave(calls[j])
          /\ calls[i].user = calls[j].user
          /\ calls[i].pc \in {"listed", "mutate"} )
        => ~( /\ calls[j].pc \in {"listed", "mutate"}
              /\ DayKeyAt(calls[i].today) = DayKeyAt(calls[j].today) )

(***************************************************************************)
(* C4.  Two saves of one caller for the same (creator, day), issued one    *)
(* after the other, whether or not the first has completed: both           *)
(* contributions are in the container, in call order.                      *)
(***************************************************************************)
C4_AppendOrderIsCallOrder ==
    \A i \in 1..Len(calls), j \in 1..Len(calls) :
        ( /\ i < j
          /\ IsDailySave(calls[i]) /\ IsDailySave(calls[j])
          /\ calls[i].user = calls[j].user
          /\ calls[i].pc = "done" /\ calls[j].pc = "done"
          /\ WithinOneDay(calls[i]) /\ WithinOneDay(calls[j])
          /\ DayKeyAt(calls[i].today) = DayKeyAt(calls[j].today) )
        => \E k \in ContainersOf(calls[i].user, DayKeyAt(calls[i].today)) :
              OccursInOrder(memos[k].content, Contribution(calls[i]), Contribution(calls[j]))

(***************************************************************************)
(* C5.  Two appends that located the same content of the same container:   *)
(* once both updates are applied the container holds what the later one    *)
(* sent, the located content plus its own line only; the line of the       *)
(* other writer is overwritten.                                            *)
(***************************************************************************)
BothAppendedTo(i, j, k) ==
    /\ i # j
    /\ IsDailySave(calls[i]) /\ IsDailySave(calls[j])
    /\ calls[i].pc = "done" /\ calls[j].pc = "done"
    /\ calls[i].req[1].kind = "update" /\ calls[j].req[1].kind = "update"
    /\ calls[i].located[1].name = memos[k].name
    /\ calls[j].located[1].name = memos[k].name
    /\ calls[i].located[1].content = calls[j].located[1].content
    /\ Wrote(i, memos[k])
    /\ memos[k].writers[Len(memos[k].writers)] = j

C5_LostUpdateOnAppend ==
    \A i \in 1..Len(calls), j \in 1..Len(calls), k \in 1..Len(memos) :
        BothAppendedTo(i, j, k)
        => memos[k].content =
              calls[j].located[1].content \o <<"\n">> \o Contribution(calls[j])

C5_Witness ==
    \E i \in 1..Len(calls), j \in 1..Len(calls), k \in 1..Len(memos) :
        /\ BothAppendedTo(i, j, k)
        /\ Contribution(calls[i]) # Contribution(calls[j])
        /\ IndexOf(memos[k].content, Contribution(calls[i])) = 0
        /\ IndexOf(memos[k].content, Contribution(calls[j])) > 0

(***************************************************************************)
(* C6.  A save whose locate step ran on day D appends only to a container  *)
(* of D, created on D, and, when its create is answered on D as well,      *)
(* creates a container of D; so a save at 00:00:01 of the next day never   *)
(* writes the container of D.                                              *)
(***************************************************************************)
IsContainerOfOnly(m, u, key) ==
    /\ IsContainer(m, u, key)
    /\ \A other \in DayKeys \ {key} : ~IsContainer(m, u, other)

C7_BlankContentRejected ==
    \A i \in 1..Len(calls) :
        (calls[i].enabled /\ Trim(calls[i].state.content) = <<>>)
        => /\ calls[i].pc = "failed"
           /\ calls[i].error = "ValidationError"
           /\ calls[i].net = <<>>

(***************************************************************************)
(* C8.  When the upload fails the save fails with that failure, having     *)
(* issued nothing but the upload: no listing, no create, no update, and    *)
(* no record written by it.                                                *)
(***************************************************************************)
C8_UploadFailureAborts ==
    \A i \in 1..Len(calls) :
        "upload" \in calls[i].faults
        => /\ calls[i].pc = "failed"
           /\ calls[i].error = NetworkError
           /\ calls[i].net = <<"upload">>
           /\ calls[i].req = <<>>
           /\ calls[i].result = <<>>
           /\ \A k \in 1..Len(memos) : ~Wrote(i, memos[k])

C8_Witness ==
    \E i \in 1..Len(calls), j \in 1..Len(calls) :
        /\ "upload" \in calls[i].faults /\ calls[i].service = "daily"
        /\ calls[i].state.localFiles # <<>>
        /\ "upload" \in calls[j].faults /\ calls[j].service = "atomic"

(***************************************************************************)
(* C9.  One save issues at most one create or update, never both and       *)
(* never a second one after a failure, and writes at most once; a failed   *)
(* create or update reaches the caller as the failure it was.              *)
(***************************************************************************)
MutationsIssued(c) ==
    Cardinality({n \in 1..Len(c.net) : c.net[n] \in {"create", "update"}})

WritesBy(i) ==
    Cardinality({<<k, n>> \in (1..Len(memos)) \X (1..MaxCalls + 1) :
                    n <= Len(memos[k].writers) /\ memos[k].writers[n] = i})

C9_AtMostOneMutation ==
    \A i \in 1..Len(calls) :
        /\ MutationsIssued(calls[i]) <= 1
        /\ WritesBy(i) <= 1
        /\ "mutate" \in calls[i].faults
              => /\ calls[i].pc = "failed"
                 /\ calls[i].error = NetworkError
                 /\ WritesBy(i) = 0

C9_Witness ==
    \E i \in 1..Len(calls), j \in 1..Len(calls) :
        /\ "mutate" \in calls[i].faults /\ calls[i].req[1].kind = "create"
        /\ "mutate" \in calls[j].faults /\ calls[j].req[1].kind = "update"

(***************************************************************************)
(* C10.  When the store holds no container of (creator, day) as the        *)
(* listing is answered, the save sends a create whose content is the       *)
(* title line of the day it is sent on, two line breaks and the            *)
(* normalized content, with the caller's visibility, relations and         *)
(* location; the answer gives the new record's name with isNewDaily set.   *)
(***************************************************************************)
NoContainerListed(i) ==
    (calls[i].pc = "list" /\ calls'[i].pc = "listed"
        /\ ContainersOf(calls[i].user, DayKeyAt(calls[i].today)) = {})
    => \A n \in 1..Len(calls'[i].response) :
          ~IsContainer(calls'[i].response[n], calls[i].user, DayKeyAt(calls[i].today))

CreateSent(i) ==
    (calls[i].pc = "listed" /\ calls'[i].pc # "listed"
        /\ \A n \in 1..Len(calls[i].response) :
              ~IsContainer(calls[i].response[n], calls[i].user, DayKeyAt(calls[i].today)))
    => /\ calls'[i].pc = "mutate"
       /\ calls'[i].req[1].kind = "create"
       /\ calls'[i].req[1].memo.content =
             TitleLine(DayKeyAt(now)) \o <<"\n", "\n">> \o Contribution(calls[i])
       /\ calls'[i].req[1].memo.visibility = calls[i].state.metadata.visibility
       /\ calls'[i].req[1].memo.relations = calls[i].state.metadata.relations
       /\ calls'[i].req[1].memo.location = calls[i].state.metadata.location

CreateAnswered(i) ==
    (IsDailySave(calls[i]) /\ calls[i].pc = "mutate" /\ calls'[i].pc = "done"
        /\ calls[i].req[1].kind = "create")
    => /\ Len(memos') = Len(memos) + 1
       /\ SubSeq(memos', 1, Len(memos)) = memos
       /\ LET m == memos'[Len(memos')]
          IN  /\ m.content = calls[i].req[1].memo.content
              /\ m.visibility = calls[i].state.metadata.visibility
              /\ m.relations = calls[i].state.metadata.relations
              /\ m.location = calls[i].state.metadata.location
              /\ \A k \in 1..Len(memos) : memos[k].name # m.name
              /\ calls'[i].result =
                    <<[memoName |-> m.name, hasChanges |-> TRUE, isNewDaily |-> TRUE]>>

ContainersIn(response, u, key) ==
    {n \in 1..Len(response) : IsContainer(response[n], u, key)}

FirstContainerIn(response, u, key) ==
    response[CHOOSE n \in ContainersIn(response, u, key) :
                \A o \in ContainersIn(response, u, key) : n <= o]

UpdateSent(i) ==
    (calls[i].pc = "listed" /\ calls'[i].pc # "listed"
        /\ ContainersIn(calls[i].response, calls[i].user, DayKeyAt(calls[i].today)) # {})
    => LET existing == FirstContainerIn(calls[i].response, calls[i].user,
                                        DayKeyAt(calls[i].today))
       IN  /\ calls'[i].pc = "mutate"
           /\ calls'[i].req[1].kind = "update"
           /\ calls'[i].req[1].memo.name = existing.name
           /\ calls'[i].req[1].memo.content =
                 existing.content \o <<"\n">> \o Contribution(calls[i])

UpdateAnswered(i) ==
    (IsDailySave(calls[i]) /\ calls[i].pc = "mutate" /\ calls'[i].pc = "done"
        /\ calls[i].req[1].kind = "update")
    => /\ Len(memos') = Len(memos)
       /\ \A k \in 1..Len(memos) : memos'[k].name = memos[k].name
       /\ \E k \in 1..Len(memos) :
             /\ memos[k].name = calls[i].located[1].name
             /\ memos'[k].content =
                   calls[i].located[1].content \o <<"\n">> \o Contribution(calls[i])
             /\ \A o \in 1..Len(memos) : o # k => memos'[o] = memos[o]
       /\ calls'[i].result =
             <<[memoName |-> calls[i].located[1].name, hasChanges |-> TRUE,
                isNewDaily |-> FALSE]>>

C11_AppendWhenContainerExists ==
    [][\A i \in 1..Len(calls) : UpdateSent(i) /\ UpdateAnswered(i)]_vars

C11_Witness ==
    \E i \in 1..Len(calls), k \in 1..Len(memos) :
        /\ IsDailySave(calls[i]) /\ calls[i].pc = "done"
        /\ calls[i].state = BulletState
        /\ calls[i].req[1].kind = "update"
        /\ Len(memos) = 4
        /\ calls[i].result = <<[memoName |-> memos[k].name, hasChanges |-> TRUE,
                                isNewDaily |-> FALSE]>>
        /\ memos[k].content =
              <<"#", " ", "2", "0", "2", "6", "-", "0", "1", "-", "0", "2", "\n", "\n",
                "-", " ", "[", " ", "]", " ", "q", "\n",
                "-", " ", "[", " ", "]", " ", "p">>

(***************************************************************************)
(* C12.  The update of the append path names exactly content, attachments  *)
(* and update_time in its mask, and the answered update leaves the         *)
(* container's visibility, relations and location (and its creator and     *)
(* creation time) as they were, whatever the caller's editor metadata.     *)
(***************************************************************************)
MaskSent(i) ==
    (IsDailySave(calls[i]) /\ calls[i].pc = "listed" /\ calls'[i].pc = "mutate"
        /\ calls'[i].req[1].kind = "update")
    => calls'[i].req[1].updateMask = {"content", "attachments", "update_time"}

FrameKept(i) ==
    (IsDailySave(calls[i]) /\ calls[i].pc = "mutate" /\ calls'[i].pc = "done"
        /\ calls[i].req[1].kind = "update")
    => \A k \in 1..Len(memos) :
          /\ memos'[k].visibility = memos[k].visibility
          /\ memos'[k].relations = memos[k].relations
          /\ memos'[k].location = memos[k].location
          /\ memos'[k].creatorId = memos[k].creatorId
          /\ memos'[k].createdTs = memos[k].createdTs

C12_UpdateMaskAndFrame ==
    [][\A i \in 1..Len(calls) : MaskSent(i) /\ FrameKept(i)]_vars

C12_Witness ==
    \E i \in 1..Len(calls), k \in 1..Len(memos) :
        /\ IsDailySave(calls[i]) /\ calls[i].pc = "done"
        /\ calls[i].req[1].kind = "update"
        /\ memos[k].name = calls[i].result[1].memoName
        /\ Wrote(i, memos[k])
        /\ calls[i].state.metadata.visibility = "PUBLIC"
        /\ calls[i].state.metadata.relations = <<"r1">>
        /\ calls[i].state.metadata.location = "home"
        /\ memos[k].visibility = "PROTECTED"
        /\ memos[k].relations = <<>>
        /\ memos[k].location = "work"

(***************************************************************************)
(* C13.  The attachment list a save sends is the caller's existing         *)
(* attachments followed by one uploaded reference per local file, in       *)
(* order; on the append path it is preceded by the located container's     *)
(* attachments; the record stores the list as sent, duplicates included.   *)
(***************************************************************************)
UploadedRefs(c) ==
    [n \in 1..Len(c.state.localFiles) |-> <<"attachments", c.state.localFiles[n]>>]

NewList(c) == c.state.metadata.attachments \o UploadedRefs(c)

C13_AttachmentsConcatenated ==
    \A i \in 1..Len(calls) :
        calls[i].req # <<>>
        => LET r == calls[i].req[1]
           IN  /\ r.kind = "create" => r.memo.attachments = NewList(calls[i])
               /\ r.kind = "update" =>
                      r.memo.attachments =
                          calls[i].located[1].attachments \o NewList(calls[i])
               /\ \A k \in 1..Len(memos) :
                      memos[k].writers[Len(memos[k].writers)] = i
                      => memos[k].attachments = r.memo.attachments

C13_Witness ==
    \E i \in 1..Len(calls), k \in 1..Len(memos) :
        /\ IsDailySave(calls[i]) /\ calls[i].pc = "done"
        /\ calls[i].req[1].kind = "update"
        /\ memos[k].writers[Len(memos[k].writers)] = i
        /\ memos[k].attachments =
              <<"a0", <<"attachments", "f1">>, "a0", <<"attachments", "f1">>>>

(***************************************************************************)
(* C14.  The listing a save receives holds, in store order, the records    *)
(* of its creator created at or after the local start of its day and less  *)
(* than 86400 seconds after it; the save locates the first of them whose   *)
(* trimmed content begins with the day's title; when none does, nothing is *)
(* located, no error is raised and the save goes on to a create.           *)
(***************************************************************************)
DayStartOf(key) ==
    IF key = Day1Key THEN 20455 * 86400 - tz ELSE 20456 * 86400 - tz

InDayOf(m, u, key) ==
    /\ m.creatorId = u
    /\ DayStartOf(key) <= m.createdTs
    /\ m.createdTs < DayStartOf(key) + 86400

ListingAnswered(i) ==
    (calls[i].pc = "list" /\ calls'[i].pc = "listed")
    => calls'[i].response =
          SelectSeq(memos, LAMBDA m : InDayOf(m, calls[i].user, DayKeyAt(calls[i].today)))

FirstMatchLocated(i) ==
    (calls[i].pc = "listed" /\ calls'[i].pc # "listed")
    => LET u   == calls[i].user
           key == DayKeyAt(calls[i].today)
       IN  IF ContainersIn(calls[i].response, u, key) = {}
           THEN /\ calls'[i].located = <<>>
                /\ calls'[i].error = ""
                /\ calls'[i].pc = "mutate"
                /\ calls'[i].req[1].kind = "create"
           ELSE calls'[i].located = <<FirstContainerIn(calls[i].response, u, key)>>

C14_FindFirstInListingOrder ==
    [][\A i \in 1..Len(calls) : ListingAnswered(i) /\ FirstMatchLocated(i)]_vars

C14_Witness ==
    \E i \in 1..Len(calls), j \in 1..Len(calls) :
        /\ Len(memos) = 4
        /\ ContainersOf(1, Day1Key) = {2, 4}
        /\ InDayOf(memos[3], 1, Day1Key) /\ memos[3].createdTs = DayStartOf(Day1Key)
        /\ ~IsContainer(memos[3], 1, Day1Key)
        /\ calls[i].pc = "mutate" /\ calls[i].user = 1
        /\ DayKeyAt(calls[i].today) = Day1Key
        /\ calls[i].located = <<memos[2]>>
        /\ calls[j].pc = "mutate" /\ calls[j].user = 1
        /\ DayKeyAt(calls[j].today) = Day2Key
        /\ calls[j].located = <<>>
        /\ calls[j].req[1].kind = "create"

(***************************************************************************)
(* C15.  Normalizing twice gives what normalizing once gives, for every    *)
(* text and for both normalizers.  Checked under SpecNormalize.            *)
(***************************************************************************)
C15_NormalizeIdempotent ==
    Len(editor.outs) = 2 => editor.outs[2] = editor.outs[1]

\* the same for texts that are not blank
IdempotentOnNonBlank ==
    (Len(editor.outs) = 2 /\ Trim(editor.draft) # <<>>)
    => editor.outs[2] = editor.outs[1]

(***************************************************************************)
(* C16.  A text whose trimmed form begins with "- [ ]", "- [x]" or         *)
(* "- [X]" is normalized to its trimmed form, by both normalizers.         *)
(***************************************************************************)
IsChecklistItem(t) ==
    \/ StartsWith(t, <<"-", " ", "[", " ", "]">>)
    \/ StartsWith(t, <<"-", " ", "[", "x", "]">>)
    \/ StartsWith(t, <<"-", " ", "[", "X", "]">>)

C16_ChecklistItemUnchanged ==
    (editor.outs # <<>> /\ IsChecklistItem(Trim(editor.draft)))
    => editor.outs[1] = Trim(editor.draft)

(***************************************************************************)
(* C17.  A text whose trimmed form begins with "- " or "* " and is not a   *)
(* checklist item is normalized to "- [ ] " followed by the trimmed form   *)
(* without its first two characters, by both normalizers.                  *)
(***************************************************************************)
IsBulletItem(t) ==
    /\ StartsWith(t, <<"-", " ">>) \/ StartsWith(t, <<"*", " ">>)
    /\ ~IsChecklistItem(t)

C17_BulletBecomesChecklist ==
    (editor.outs # <<>> /\ IsBulletItem(Trim(editor.draft)))
    => editor.outs[1] =
          <<"-", " ", "[", " ", "]", " ">>
              \o SubSeq(Trim(editor.draft), 3, Len(Trim(editor.draft)))

(***************************************************************************)
(* C18.  An empty or whitespace-only text is normalized to the empty       *)
(* text, by both normalizers.                                              *)
(***************************************************************************)
C18_BlankStaysEmpty ==
    (editor.outs # <<>> /\ Trim(editor.draft) = <<>>)
    => editor.outs[1] = <<>>

(***************************************************************************)
(* C19.  The groups partition the records handed in: each record is in     *)
(* exactly one group, once, unaltered; that group's key is the local       *)
(* calendar day of the record's display time (of the clock at rendering    *)
(* when it has none); no group holds anything else.  Under SpecGroup.      *)
(***************************************************************************)
KeyOfLocalDay(d) ==
    IF d = 20453 THEN <<"2", "0", "2", "5", "-", "1", "2", "-", "3", "1">>
    ELSE IF d = 20454 THEN <<"2", "0", "2", "6", "-", "0", "1", "-", "0", "1">>
    ELSE IF d = 20455 THEN Day1Key
    ELSE Day2Key

LocalDayOfRecord(r) ==
    IF r.displayTime = <<>> THEN (page.at + tz) \div 86400
    ELSE (r.displayTime[1] + tz) \div 86400

Slots == {<<g, k>> \in (1..Len(page.groups)) \X (1..MaxRecords + 1) :
             k <= Len(page.groups[g].memos)}

C19_GroupsPartitionRecords ==
    /\ \A n \in 1..Len(page.memos) :
          \E s \in Slots :
             /\ page.groups[s[1]].memos[s[2]] = page.memos[n]
             /\ page.groups[s[1]].date = KeyOfLocalDay(LocalDayOfRecord(page.memos[n]))
             /\ \A o \in Slots :
                   page.groups[o[1]].memos[o[2]].name = page.memos[n].name => o = s
    /\ \A s \in Slots :
          \E n \in 1..Len(page.memos) : page.groups[s[1]].memos[s[2]] = page.memos[n]

C19_Witness ==
    /\ Len(page.memos) = 3
    /\ page.memos[1].displayTime = <<Instant(2, tz)>>
    /\ page.memos[2].displayTime = <<>>
    /\ page.memos[3].displayTime = <<Instant(1, tz)>>
    /\ page.at = Instant(1, tz)
    /\ Len(page.groups) = 2
    /\ page.groups[1].date = Day2Key /\ page.groups[1].memos = <<page.memos[1]>>
    /\ page.groups[2].date = Day1Key
    /\ page.groups[2].memos = <<page.memos[2], page.memos[3]>>

(***************************************************************************)
(* C20.  Consecutive groups have strictly decreasing day keys, so no two   *)
(* groups share a key, and no group is empty.  Under SpecGroup.            *)
(***************************************************************************)
LocalDayOfKey(key) == CHOOSE d \in 20453..20456 : KeyOfLocalDay(d) = key

C20_GroupsStrictlyDescending ==
    /\ \A g \in 1..Len(page.groups) :
          /\ page.groups[g].memos # <<>>
          /\ \E d \in 20453..20456 : KeyOfLocalDay(d) = page.groups[g].date
    /\ \A g \in 1..(Len(page.groups) - 1) :
          LocalDayOfKey(page.groups[g].date) > LocalDayOfKey(page.groups[g + 1].date)

C20_Witness ==
    /\ Len(page.memos) = 3
    /\ page.memos[1].displayTime = <<Instant(1, tz) - 86400>>
    /\ page.memos[2].displayTime = <<Instant(2, tz)>>
    /\ page.memos[3].displayTime = <<Instant(1, tz) - 2 * 86400>>
    /\ Len(page.groups) = 3
    /\ page.groups[1].date = Day2Key
    /\ page.groups[2].date = <<"2", "0", "2", "6", "-", "0", "1", "-", "0", "1">>
    /\ page.groups[3].date = <<"2", "0", "2", "5", "-", "1", "2", "-", "3", "1">>

(***************************************************************************)
(* C21.  In every group the two counts add up to the number of lines, over *)
(* the contents of the group's records, that are checklist items: lines    *)
(* that begin, after indentation, with "- [ ]", "- [x]" or "- [X]".        *)
(* Under SpecGroup.                                                        *)
(***************************************************************************)
RECURSIVE LinesOf(_)
LinesOf(s) ==
    IF ~(\E i \in 1..Len(s) : s[i] = "\n") THEN <<s>>
    ELSE LET i == CHOOSE k \in 1..Len(s) :
                     s[k] = "\n" /\ \A j \in 1..(k - 1) : s[j] # "\n"
         IN  <<SubSeq(s, 1, i - 1)>> \o LinesOf(SubSeq(s, i + 1, Len(s)))

ChecklistLines(content) ==
    Cardinality({n \in 1..Len(LinesOf(content)) :
                    IsChecklistItem(TrimStart(LinesOf(content)[n]))})

RECURSIVE ChecklistLinesOver(_)
ChecklistLinesOver(list) ==
    IF list = <<>> THEN 0
    ELSE ChecklistLines(Head(list).content) + ChecklistLinesOver(Tail(list))

C21_CountsAreChecklistLines ==
    \A g \in 1..Len(page.groups) :
        page.groups[g].incompleteCount + page.groups[g].completeCount
            = ChecklistLinesOver(page.groups[g].memos)

(***************************************************************************)
(* C22.  Within each group the records are in the order they had in the    *)
(* list handed in.  Under SpecGroup.                                       *)
(***************************************************************************)
PositionIn(list, r) == CHOOSE n \in 1..Len(list) : list[n] = r

C22_OrderKeptWithinGroup ==
    \A g \in 1..Len(page.groups) :
        \A k \in 1..(Len(page.groups[g].memos) - 1) :
            PositionIn(page.memos, page.groups[g].memos[k])
                < PositionIn(page.memos, page.groups[g].memos[k + 1])

C22_Witness ==
    /\ Len(page.memos) = 3
    /\ Len(page.groups) = 2
    /\ page.groups[1].memos = <<page.memos[2]>>
    /\ page.groups[2].memos = <<page.memos[1], page.memos[3]>>
    /\ page.memos[1].content # page.memos[3].content

(***************************************************************************)
(* C23.  The label of a group is Today when its key is the local day of    *)
(* the clock at rendering, Yesterday when it is the day before (the year   *)
(* may differ), else month and day when the key's year is the clock's      *)
(* year, else year, month and day.  Under SpecGroup.                       *)
(***************************************************************************)
YearOfLocalDay(d) == IF d <= 20453 THEN 2025 ELSE 2026

MonthOfLocalDay(d) == IF d <= 20453 THEN 12 ELSE 1

DayOfMonthOfLocalDay(d) == IF d <= 20453 THEN 31 ELSE d - 20453

ExpectedLabel(d, today) ==
    IF d = today THEN [kind |-> "today"]
    ELSE IF d = today - 1 THEN [kind |-> "yesterday"]
    ELSE IF YearOfLocalDay(d) = YearOfLocalDay(today)
    THEN [kind |-> "M-D", month |-> MonthOfLocalDay(d), day |-> DayOfMonthOfLocalDay(d)]
    ELSE [kind |-> "Y-M-D", year |-> YearOfLocalDay(d),
          month |-> MonthOfLocalDay(d), day |-> DayOfMonthOfLocalDay(d)]

C23_DisplayLabels ==
    \A g \in 1..Len(page.groups) :
        page.groups[g].displayDate =
            ExpectedLabel(LocalDayOfKey(page.groups[g].date), (page.at + tz) \div 86400)

\* rendered on 2026-01-01: 2025-12-31 is Yesterday, 2026-01-03 month and day
C23_Witness ==
    /\ (page.at + tz) \div 86400 = 20454
    /\ Len(page.groups) = 3
    /\ page.groups[1].date = Day2Key
    /\ page.groups[1].displayDate = [kind |-> "M-D", month |-> 1, day |-> 3]
    /\ page.groups[2].displayDate = [kind |-> "today"]
    /\ page.groups[3].date = <<"2", "0", "2", "5", "-", "1", "2", "-", "3", "1">>
    /\ page.groups[3].displayDate = [kind |-> "yesterday"]

\* rendered on 2026-01-03: 2025-12-31 is given with its year
C23_WitnessOtherYear ==
    /\ (page.at + tz) \div 86400 = 20456
    /\ \E g \in 1..Len(page.groups) :
          page.groups[g].displayDate =
              [kind |-> "Y-M-D", year |-> 2025, month |-> 12, day |-> 31]

(***************************************************************************)
(* The annotation hook.                                                    *)
(***************************************************************************)
\* mutation i is answered in this step
AnsweredNow(i, kind) ==
    /\ i \in 1..Len(notes.mutations)
    /\ notes.mutations[i].kind = kind
    /\ notes.mutations[i].status = "pending"
    /\ notes'.mutations[i].status # "pending"

SucceededNow(i, kind) ==
    /\ AnsweredNow(i, kind)
    /\ notes'.mutations[i].status = "success"

\* C24: adding an annotation creates one new record that is a comment of
\* the given parent, whose content is exactly the given text and whose
\* visibility is PRIVATE, whatever the visibility of the parent
C24_AddCreatesPrivateChild ==
    [][\A i \in 1..Len(notes.mutations) :
          SucceededNow(i, "add") =>
              LET given == notes.mutations[i].given
              IN  /\ Len(memos') = Len(memos) + 1
                  /\ SubSeq(memos', 1, Len(memos)) = memos
                  /\ ~HasName(memos, memos'[Len(memos')].name)
                  /\ IsCommentOf(memos'[Len(memos')], given.memoName)
                  /\ memos'[Len(memos')].content = given.content
                  /\ memos'[Len(memos')].visibility = "PRIVATE"]_vars

\* a bullet line was added to a PUBLIC record: it is stored as typed
C24_Witness ==
    /\ memos[1].visibility = "PUBLIC"
    /\ \E k \in 1..Len(memos) :
          /\ memos[k].writers # <<0>>
          /\ IsCommentOf(memos[k], 1)
          /\ memos[k].content = DashBullet \o <<"m">>
          /\ memos[k].visibility = "PRIVATE"

\* C25: when an add succeeds, the listing of the parent's annotations
\* contains an annotation with the given text and the cached listing is
\* invalidated; the listing fetched next is the one of the service
C25_AddThenListRoundTrip ==
    [][(\A i \in 1..Len(notes.mutations) :
           SucceededNow(i, "add") =>
               LET given  == notes.mutations[i].given
                   listed == listMemoComments(memos', given.memoName)
               IN  /\ \E k \in 1..Len(listed) :
                          /\ listed[k].content = given.content
                          /\ listed[k].writers = <<i>>
                   /\ notes'.comments.stale)
       /\ ((notes.comments.stale /\ ~notes'.comments.stale) =>
               notes'.comments.data = listMemoComments(memos', notes.memoName))]_vars

\* an annotation was added and the list shown has been fetched since
C25_Witness ==
    /\ ~notes.comments.stale
    /\ \E i \in 1..Len(notes.mutations) :
          /\ notes.mutations[i].kind = "add"
          /\ notes.mutations[i].status = "success"
          /\ \E k \in 1..Len(notes.comments.data) :
                /\ notes.comments.data[k].writers = <<i>>
                /\ notes.comments.data[k].content = notes.mutations[i].given.content

\* the fields of a record other than its content (and the history)
SameButContent(a, b) ==
    /\ a.name = b.name
    /\ a.creatorId = b.creatorId
    /\ a.createdTs = b.createdTs
    /\ a.visibility = b.visibility
    /\ a.relations = b.relations
    /\ a.attachments = b.attachments
    /\ a.location = b.location

\* C26: an update is sent with the mask {content}; when it succeeds the
\* annotation has the given content, its visibility, relations and
\* attachments are as before, and no other record changes
C26_UpdateWritesContentOnly ==
    [][\A i \in 1..Len(notes.mutations) :
          /\ notes.mutations[i].kind = "update" =>
                 notes.mutations[i].request.updateMask = {"content"}
          /\ SucceededNow(i, "update") =>
                 LET given == notes.mutations[i].given
                 IN  /\ Len(memos') = Len(memos)
                     /\ \A k \in 1..Len(memos) :
                           IF memos[k].name = given.name
                           THEN /\ memos'[k].content = given.content
                                /\ SameButContent(memos'[k], memos[k])
                           ELSE memos'[k] = memos[k]]_vars

\* the annotation with the attachment was given another content
C26_Witness ==
    /\ Len(memos) >= 3
    /\ memos[3].name = 3
    /\ Len(memos[3].writers) = 2
    /\ memos[3].content = <<"n">>
    /\ memos[3].attachments = <<"a0">>
    /\ memos[3].visibility = "PRIVATE"
    /\ Len(memos[3].relations) = 2

\* an earlier delete of the same annotation has succeeded
DeletedBefore(i) ==
    \E j \in 1..Len(notes.mutations) :
        /\ j # i
        /\ notes.mutations[j].kind = "delete"
        /\ notes.mutations[j].status = "success"
        /\ notes.mutations[j].given.name = notes.mutations[i].given.name

\* C27: the first delete of an annotation removes it and nothing else; a
\* delete of an annotation that has been deleted is answered with NotFound,
\* which rejects the caller's promise, and changes neither the records nor
\* the list shown, and the hook goes on taking calls
C27_SecondDeleteIsNotFound ==
    [][\A i \in 1..Len(notes.mutations) :
          AnsweredNow(i, "delete") =>
              \/ notes'.mutations[i].error = NetworkError /\ memos' = memos
              \/ IF DeletedBefore(i)
                 THEN /\ notes'.mutations[i].status = "error"
                      /\ notes'.mutations[i].error = NotFound
                      /\ memos' = memos
                      /\ notes'.comments = notes.comments
                      /\ notes'.memoName = notes.memoName
                 ELSE /\ notes'.mutations[i].status = "success"
                      /\ memos' = deleteMemo(memos, notes.mutations[i].given.name)
                      /\ Len(memos') = Len(memos) - 1]_vars

\* annotation 4 was deleted twice, the second time through the button that
\* lets go of the promise; annotation 3 is still there and the list has
\* been fetched again
C27_Witness ==
    /\ Len(notes.mutations) = 2
    /\ notes.mutations[1].given = [name |-> 4]
    /\ notes.mutations[2].given = [name |-> 4]
    /\ notes.mutations[1].status = "success"
    /\ notes.mutations[2].status = "error"
    /\ notes.mutations[2].error = NotFound
    /\ ~notes.mutations[2].caught
    /\ ~notes.comments.stale
    /\ Len(notes.comments.data) = 1
    /\ notes.comments.data[1] = memos[3]
    /\ memos[3].attachments = <<"a0">>

(***************************************************************************)
(* The atomic save and the lines of its input.  Under Spec.                *)
(***************************************************************************)
\* the records created by call i, in store order
CreatedBy(i) == SelectSeq(memos, LAMBDA m : m.writers[1] = i)

\* C28: a completed atomic save of N lines has created N records, the
\* n-th holding the n-th line as a to-do, and only the first of them
\* carries the attachments
C28_AtomicSplitsLines ==
    \A i \in 1..Len(calls) :
        (calls[i].service = "atomic" /\ calls[i].pc = "done") =>
            LET lines   == LinesOf(Trim(calls[i].state.content))
                created == CreatedBy(i)
            IN  /\ Len(created) = Len(lines)
                /\ \A n \in 1..Len(created) :
                       /\ created[n].content = formatAsTodo(lines[n])
                       /\ created[n].attachments =
                              IF n = 1 THEN allAttachments(calls[i]) ELSE <<>>

\* a completed atomic save has created exactly one record, which holds the
\* whole trimmed input behind one to-do marker, and all the attachments
AtomicSaveCreatesOne ==
    \A i \in 1..Len(calls) :
        (calls[i].service = "atomic" /\ calls[i].pc = "done") =>
            /\ Len(CreatedBy(i)) = 1
            /\ CreatedBy(i)[1].content = TodoPrefix \o Trim(calls[i].state.content)
            /\ CreatedBy(i)[1].attachments = allAttachments(calls[i])

(***************************************************************************)
(* One record in its view: the timer widget (MemoTimer) and the checkboxes *)
(* of its task list (TaskListItem).  The wall clock is now seconds and     *)
(* view.millis thousandths.  An event is one run of a handler; it holds    *)
(* the request the handler issued, if any, and as history the time and the *)
(* record the handler read.                                                *)
(***************************************************************************)
\* runs of the handlers of one view
MaxEvents == 3

\* seconds the clock of the view may advance
MaxElapsed == 2

\* Date.now() / 1000: a number of seconds with a fraction
DateNowSeconds(t, millis) == [whole |-> t, thousandths |-> millis]

\* Math.floor of a number whose fraction is in [0, 1)
MathFloor(x) == x.whole

\* Math.round, for comparison
MathRound(x) == IF x.thousandths >= 500 THEN x.whole + 1 ELSE x.whole

\* a variant that goes on counting while paused
calculateTimerDurationAlways(t, lastStartTimestamp, accumulatedSeconds, isRunning) ==
    accumulatedSeconds + (MathFloor(t) - lastStartTimestamp)

calculateTimerDuration(t, lastStartTimestamp, accumulatedSeconds, isRunning) ==
    IF isRunning
    THEN accumulatedSeconds + (MathFloor(t) - lastStartTimestamp)
    ELSE accumulatedSeconds

\* a variant that takes the nearest second
calculateNewTimerStateRounding(t, lastStartTimestamp, accumulatedSeconds, shouldRun) ==
    LET currentTimestamp == MathRound(t)
        newAccumulated ==
            IF ~shouldRun
            THEN accumulatedSeconds + (currentTimestamp - lastStartTimestamp)
            ELSE accumulatedSeconds
    IN  [ accumulatedSeconds |-> newAccumulated,
          isRunning          |-> shouldRun,
          lastStartTimestamp |-> IF shouldRun THEN currentTimestamp ELSE 0 ]

\* a variant that keeps the start time when it pauses
calculateNewTimerStateKeepingStart(t, lastStartTimestamp, accumulatedSeconds, shouldRun) ==
    LET currentTimestamp == MathFloor(t)
        newAccumulated ==
            IF ~shouldRun
            THEN accumulatedSeconds + (currentTimestamp - lastStartTimestamp)
            ELSE accumulatedSeconds
    IN  [ accumulatedSeconds |-> newAccumulated,
          isRunning          |-> shouldRun,
          lastStartTimestamp |-> IF shouldRun THEN currentTimestamp ELSE lastStartTimestamp ]

calculateNewTimerState(t, lastStartTimestamp, accumulatedSeconds, shouldRun) ==
    LET currentTimestamp == MathFloor(t)
        newAccumulated ==
            IF ~shouldRun
            THEN accumulatedSeconds + (currentTimestamp - lastStartTimestamp)
            ELSE accumulatedSeconds
    IN  [ accumulatedSeconds |-> newAccumulated,
          isRunning          |-> shouldRun,
          lastStartTimestamp |-> IF shouldRun THEN currentTimestamp ELSE 0 ]

RECURSIVE JoinLines(_)
JoinLines(lines) ==
    IF Len(lines) = 1 THEN lines[1]
    ELSE lines[1] \o <<"\n">> \o JoinLines(Tail(lines))

\* the line numbers of the task items of a text, in order
TaskLinesOf(lines) ==
    SelectSeq([n \in 1..Len(lines) |-> n], LAMBDA n : IsChecklistItem(lines[n]))

\* toggleTaskAtIndex: the marker of the task with the given index (from 0)
\* is set, the rest of the text is kept
toggleTaskAtIndex(markdown, taskIndex, checked) ==
    LET lines == LinesOf(markdown)
        tasks == TaskLinesOf(lines)
        marker == IF checked THEN TodoDoneLower ELSE TodoOpen
    IN  IF taskIndex + 1 > Len(tasks) THEN markdown
        ELSE JoinLines([n \in 1..Len(lines) |->
                 IF n = tasks[taskIndex + 1]
                 THEN marker \o Slice(lines[n], 5)
                 ELSE lines[n]])

\* memo.timer || { 0, false, 0 }
TimerOf(memo) ==
    IF memo.timer = <<>>
    THEN [accumulatedSeconds |-> 0, isRunning |-> FALSE, lastStartTimestamp |-> 0]
    ELSE memo.timer[1]

\* MemoTimer.handleToggleTimer: the requests it issues
handleToggleTimer(v, t) ==
    LET memo  == v.memo[1]
        timer == TimerOf(memo)
        newTimerState ==
            calculateNewTimerState(t, timer.lastStartTimestamp,
                                   timer.accumulatedSeconds, ~timer.isRunning)
    IN  << [ update     |-> [name |-> memo.name, timer |-> newTimerState],
             updateMask |-> {"timer"} ] >>

\* a handleChange that leaves the timer alone
handleChangeContentOnly(v, taskIndex, newChecked, t) ==
    IF v.readonly \/ v.memo = <<>> THEN <<>>
    ELSE LET memo       == v.memo[1]
             newContent == toggleTaskAtIndex(memo.content, taskIndex, newChecked)
         IN  << [ update     |-> [name |-> memo.name, content |-> newContent],
                  updateMask |-> {"content"} ] >>

\* TaskListItem.handleChange: the requests it issues, for a checkbox that
\* sits in its list item
handleChange(v, taskIndex, newChecked, t) ==
    IF v.readonly \/ v.memo = <<>> THEN <<>>
    ELSE LET memo       == v.memo[1]
             newContent == toggleTaskAtIndex(memo.content, taskIndex, newChecked)
         IN  IF newChecked /\ memo.timer # <<>> /\ memo.timer[1].isRunning
             THEN LET newTimerState ==
                          calculateNewTimerState(t, memo.timer[1].lastStartTimestamp,
                                                 memo.timer[1].accumulatedSeconds, FALSE)
                  IN  << [ update     |-> [ name |-> memo.name, content |-> newContent,
                                            timer |-> newTimerState ],
                           updateMask |-> {"content", "timer"} ] >>
             ELSE << [ update     |-> [name |-> memo.name, content |-> newContent],
                       updateMask |-> {"content"} ] >>

\* updateMemo as the view sees it: the fields named by the mask are written
\* and the record of the view is the answer
applyUpdate(memo, request) ==
    [ memo EXCEPT
        !.content = IF "content" \in request.updateMask
                    THEN request.update.content ELSE @,
        !.timer   = IF "timer" \in request.updateMask
                    THEN <<request.update.timer>> ELSE @ ]

\* two tasks, the first open and the second done
TaskContent ==
    TodoPrefix \o <<"p", "\n">> \o TodoDoneLower \o <<" ", "q">>

\* no timer yet, a paused one and one that has been running for 3 seconds
TimersAt(t) ==
    { <<>>,
      <<[accumulatedSeconds |-> 5, isRunning |-> FALSE, lastStartTimestamp |-> 0]>>,
      <<[accumulatedSeconds |-> 5, isRunning |-> TRUE, lastStartTimestamp |-> t - 3]>> }

InitView ==
    /\ tz \in TimeZones
    /\ now = Instant(1, tz)
    /\ memos = <<>>
    /\ calls = <<>>
    /\ editor = EditorIdle
    /\ page = PageIdle
    /\ notes = NotesIdle
    /\ \E timer \in TimersAt(now), readonly \in BOOLEAN :
          view = [ memo     |-> <<[name |-> 1, content |-> TaskContent, timer |-> timer]>>,
                   readonly |-> readonly,
                   millis   |-> 600,
                   events   |-> <<>> ]

Event(by, newChecked, issued) ==
    [ by |-> by, at |-> DateNowSeconds(now, view.millis), read |-> view.memo,
      newChecked |-> newChecked, issued |-> issued, applied |-> FALSE ]

Handle(event) ==
    /\ Len(view.events) < MaxEvents
    /\ view' = [view EXCEPT !.events = Append(@, event)]
    /\ UNCHANGED <<now, tz, memos, calls, editor, page, notes>>

\* the button of the timer is pressed
ToggleTimer ==
    Handle(Event("timer", FALSE,
                 handleToggleTimer(view, DateNowSeconds(now, view.millis))))

IsChecked(markdown, taskIndex) ==
    LET lines == LinesOf(markdown)
    IN  ~StartsWith(lines[TaskLinesOf(lines)[taskIndex + 1]], TodoOpen)

\* a checkbox is clicked: it asks for the opposite of what it shows
ChangeTask(taskIndex) ==
    LET newChecked == ~IsChecked(view.memo[1].content, taskIndex)
    IN  Handle(Event("task", newChecked,
                     handleChange(view, taskIndex, newChecked,
                                  DateNowSeconds(now, view.millis))))

\* the oldest request not yet answered is answered
Applied(k) ==
    /\ view.events[k].issued # <<>>
    /\ ~view.events[k].applied
    /\ \A j \in 1..(k - 1) : view.events[j].issued = <<>> \/ view.events[j].applied
    /\ view' = [view EXCEPT !.events[k].applied = TRUE,
                            !.memo = <<applyUpdate(@[1], view.events[k].issued[1])>>]
    /\ UNCHANGED <<now, tz, memos, calls, editor, page, notes>>

\* 700 ms pass
Elapse ==
    /\ now + (view.millis + 700) \div 1000 <= Instant(1, tz) + MaxElapsed
    /\ now' = now + (view.millis + 700) \div 1000
    /\ view' = [view EXCEPT !.millis = (@ + 700) % 1000]
    /\ UNCHANGED <<tz, memos, calls, editor, page, notes>>

NextView ==
    \/ ToggleTimer
    \/ \E taskIndex \in 0..1 : ChangeTask(taskIndex)
    \/ \E k \in 1..Len(view.events) : Applied(k)
    \/ Elapse

SpecView == InitView /\ [][NextView]_vars

(***************************************************************************)
(* The timer.  Under SpecView.                                             *)
(***************************************************************************)
\* the largest whole number of seconds not above x
FloorOf(x) ==
    x.whole + (CHOOSE d \in -1..1 :
                  d * 1000 <= x.thousandths /\ x.thousandths < (d + 1) * 1000)

\* the requests issued so far that carry a timer, with what was asked
TimerEvents ==
    {k \in 1..Len(view.events) :
        /\ view.events[k].issued # <<>>
        /\ "timer" \in view.events[k].issued[1].updateMask}

ShouldRun(e) == e.by = "timer" /\ ~TimerOf(e.read[1]).isRunning

\* C29: the state calculateNewTimerState gives: on a pause the accumulated
\* seconds grow by floor(now) - lastStartTimestamp, isRunning is false and
\* lastStartTimestamp is 0; on a start the accumulated seconds are kept,
\* isRunning is true and lastStartTimestamp is floor(now)
C29_NewTimerState ==
    \A k \in TimerEvents :
        LET e     == view.events[k]
            old   == TimerOf(e.read[1])
            timer == e.issued[1].update.timer
        IN  IF ShouldRun(e)
            THEN /\ timer.accumulatedSeconds = old.accumulatedSeconds
                 /\ timer.isRunning
                 /\ timer.lastStartTimestamp = FloorOf(e.at)
            ELSE /\ timer.accumulatedSeconds =
                        old.accumulatedSeconds + (FloorOf(e.at) - old.lastStartTimestamp)
                 /\ ~timer.isRunning
                 /\ timer.lastStartTimestamp = 0

\* a timer that had run for 3 seconds was paused 4.3 seconds after that and
\* started again, each time in the second half of a second
C29_Witness ==
    /\ Len(view.events) >= 2
    /\ view.events[1].by = "timer" /\ view.events[2].by = "timer"
    /\ view.events[1].applied /\ view.events[2].applied
    /\ view.events[1].at.thousandths >= 500
    /\ view.events[2].at.thousandths >= 500
    /\ view.events[1].read[1].timer # <<>>
    /\ view.events[1].read[1].timer[1].isRunning
    /\ view.events[1].issued[1].update.timer =
          [accumulatedSeconds |-> 8, isRunning |-> FALSE, lastStartTimestamp |-> 0]
    /\ view.events[2].issued[1].update.timer =
          [ accumulatedSeconds |-> 8, isRunning |-> TRUE,
            lastStartTimestamp |-> view.events[2].at.whole ]
    /\ view.events[2].at.whole = view.events[1].at.whole + 2

(***************************************************************************)
(* The checkbox of a task.  Under SpecView.                                *)
(***************************************************************************)
WasRunning(e) == e.read[1].timer # <<>> /\ e.read[1].timer[1].isRunning

\* what a click on a checkbox has issued
TaskRequestRight(e) ==
    IF view.readonly THEN e.issued = <<>>
    ELSE /\ Len(e.issued) = 1
         /\ e.issued[1].update.name = e.read[1].name
         /\ IF e.newChecked /\ WasRunning(e)
            THEN /\ e.issued[1].updateMask = {"content", "timer"}
                 /\ ~e.issued[1].update.timer.isRunning
                 /\ e.issued[1].update.timer.accumulatedSeconds =
                        e.read[1].timer[1].accumulatedSeconds
                            + (FloorOf(e.at) - e.read[1].timer[1].lastStartTimestamp)
            ELSE e.issued[1].updateMask = {"content"}

\* request k is answered in this step
AppliedNow(k) ==
    /\ k \in 1..Len(view.events)
    /\ ~view.events[k].applied
    /\ view'.events[k].applied

\* C30: checking a task while the timer runs issues one update with the
\* mask {content, timer} whose timer is paused with the elapsed time added;
\* any other click issues one update with the mask {content}, which leaves
\* the timer of the record as it is; a read-only view issues nothing
C30_TaskToggleUpdate ==
    [][/\ \A k \in 1..Len(view'.events) :
             view'.events[k].by = "task" => TaskRequestRight(view'.events[k])
       /\ \A k \in 1..Len(view.events) :
             (AppliedNow(k) /\ view.events[k].issued[1].updateMask = {"content"}) =>
                 /\ view'.memo[1].timer = view.memo[1].timer
                 /\ view'.memo[1].content = view.events[k].issued[1].update.content]_vars

\* the open task was checked 1.3 seconds into the model while the timer ran:
\* the timer is paused at 9 seconds; then the other task was unchecked
C30_Witness ==
    /\ ~view.readonly
    /\ Len(view.events) >= 2
    /\ view.events[1].by = "task" /\ view.events[1].newChecked
    /\ view.events[1].applied
    /\ view.events[1].issued[1].updateMask = {"content", "timer"}
    /\ view.events[1].issued[1].update.timer =
          [accumulatedSeconds |-> 9, isRunning |-> FALSE, lastStartTimestamp |-> 0]
    /\ view.events[1].issued[1].update.content =
          TodoDoneLower \o <<" ", "p", "\n">> \o TodoDoneLower \o <<" ", "q">>
    /\ view.events[2].by = "task" /\ ~view.events[2].newChecked
    /\ view.events[2].applied
    /\ view.events[2].issued[1].updateMask = {"content"}
    /\ view.memo[1].content =
          TodoDoneLower \o <<" ", "p", "\n">> \o TodoOpen \o <<" ", "q">>
    /\ view.memo[1].timer =
          <<[accumulatedSeconds |-> 9, isRunning |-> FALSE, lastStartTimestamp |-> 0]>>

\* a click in a read-only view has issued nothing
C30_WitnessReadOnly ==
    /\ view.readonly
    /\ \E k \in 1..Len(view.events) :
          view.events[k].by = "task" /\ view.events[k].issued = <<>>

(***************************************************************************)
(* The mode flag.  Under Spec.                                             *)
(***************************************************************************)
\* C31: a save whose mode flag is off has returned a result with
\* hasChanges = false, has sent no upload, listing, create or update, and
\* has written no record
C31_DisabledModeDoesNothing ==
    \A i \in 1..Len(calls) :
        ~calls[i].enabled =>
            /\ calls[i].pc = "returned"
            /\ Len(calls[i].result) = 1
            /\ ~calls[i].result[1].hasChanges
            /\ calls[i].net = <<>>
            /\ calls[i].req = <<>>
            /\ calls[i].newAttachments = <<>>
            /\ \A k \in 1..Len(memos) : ~Wrote(i, memos[k])

\* a daily and an atomic save were issued with the flag off, over a store
\* with records
C31_Witness ==
    /\ Len(calls) = 2
    /\ calls[1].service = "daily" /\ ~calls[1].enabled
    /\ calls[2].service = "atomic" /\ ~calls[2].enabled
    /\ calls[1].result = <<[memoName |-> <<>>, hasChanges |-> FALSE, isNewDaily |-> FALSE]>>
    /\ calls[2].result = <<[memoNames |-> <<>>, count |-> 0, hasChanges |-> FALSE]>>
    /\ Len(memos) = 4

(***************************************************************************)
(* The day of the locate step and the day of the title.  Under Spec.       *)
(***************************************************************************)
\* C32: the create request of a save carries the title of the day whose
\* window its listing request asked for
C32_OneDayKeyPerSave ==
    \A i \in 1..Len(calls) :
        ( /\ IsDailySave(calls[i])
          /\ calls[i].filter # <<>>
          /\ calls[i].req # <<>>
          /\ calls[i].req[1].kind = "create" )
        => \E key \in DayKeys :
              /\ calls[i].filter[1].startOfDayTs = DayStartOf(key)
              /\ calls[i].filter[1].endOfDayTs = DayStartOf(key) + SecondsPerDay
              /\ StartsWith(calls[i].req[1].memo.content, TitleLine(key))

\* the same, for the saves that locate and create within one local day
OneDayKeyWithinOneDay ==
    \A i \in 1..Len(calls) :
        ( /\ IsDailySave(calls[i])
          /\ calls[i].filter # <<>>
          /\ calls[i].pc = "done"
          /\ calls[i].req[1].kind = "create"
          /\ WithinOneDay(calls[i]) )
        => /\ calls[i].filter[1].startOfDayTs = DayStartOf(DayKeyAt(calls[i].today))
           /\ StartsWith(calls[i].req[1].memo.content,
                         TitleLine(DayKeyAt(calls[i].today)))

(***************************************************************************)
(* The listing page.  Under SpecBusy: sequential saves on a day on which   *)
(* the creator has written a page full of other records.                   *)
(***************************************************************************)
\* the containers of (u, key) that were created within the day
ContainersWithinDay(u, key) ==
    {k \in ContainersOf(u, key) : InDayOf(memos[k], u, key)}

\* C33: a listing that has been answered holds the container of the
\* creator and day when there is one, however many records the creator
\* made that day, and sequential saves leave at most one container per
\* creator and day
C33_FindSeesContainerBeyondPage ==
    /\ \A i \in 1..Len(calls) :
          (calls[i].pc = "listed"
              /\ ContainersWithinDay(calls[i].user, DayKeyAt(calls[i].today)) # {})
          => ContainersIn(calls[i].response, calls[i].user, DayKeyAt(calls[i].today)) # {}
    /\ \A u \in Users, key \in DayKeys :
          Cardinality(ContainersWithinDay(u, key)) <= 1

\* the same for a creator with fewer records in the day than a page holds
FindSeesContainerWithinPage ==
    \A i \in 1..Len(calls) :
        ( /\ calls[i].pc = "listed"
          /\ ContainersWithinDay(calls[i].user, DayKeyAt(calls[i].today)) # {}
          /\ Cardinality({k \in 1..Len(memos) :
                            InDayOf(memos[k], calls[i].user, DayKeyAt(calls[i].today))})
                <= PAGE_SIZE )
        => ContainersIn(calls[i].response, calls[i].user, DayKeyAt(calls[i].today)) # {}

(***************************************************************************)
(* A creator name without a user id.  Under SpecUnnamed.                   *)
(***************************************************************************)
Unidentified(c) == IsDailySave(c) /\ extractUserIdFromName(c.creatorName) = <<>>

\* C34: a save whose creator name holds no user id sends no create or
\* update and ends as a failure, and the saves of one session leave at most
\* one container per day
C34_UnidentifiedCreatorReported ==
    /\ \A i \in 1..Len(calls) :
          Unidentified(calls[i]) =>
              /\ calls[i].req = <<>>
              /\ \A k \in 1..Len(memos) : ~Wrote(i, memos[k])
              /\ Settled(calls[i]) => calls[i].pc = "failed"
    /\ StartedEmpty =>
          \A key \in DayKeys : Cardinality(ContainersWithinDay(1, key)) <= 1

\* saves whose creator name holds a user id, run one after the other, leave
\* at most one container per day
IdentifiedCreatorOneContainer ==
    (StartedEmpty /\ \A i \in 1..Len(calls) : ~Unidentified(calls[i]))
    => \A key \in DayKeys : Cardinality(ContainersWithinDay(1, key)) <= 1

\* two saves without a creator name, run one after the other within one
\* day, have each created a container
TwoContainersOfUnnamedSession ==
    /\ Len(calls) = 2
    /\ Unidentified(calls[1]) /\ Unidentified(calls[2])
    /\ calls[1].pc = "done" /\ calls[2].pc = "done"
    /\ calls[1].net = <<"upload", "create">>
    /\ Cardinality(ContainersWithinDay(1, Day1Key)) = 2

(***************************************************************************)
(* Uploaded attachments and the mutation that carries them.  Under Spec.   *)
(***************************************************************************)
\* the references of c's upload are at the end of the attachments it sent
CarriesUploads(c) ==
    /\ c.req # <<>>
    /\ LET sent == c.req[1].memo.attachments
           n    == Len(c.newAttachments)
       IN  /\ Len(sent) >= n
           /\ SubSeq(sent, Len(sent) - n + 1, Len(sent)) = c.newAttachments

\* C35: a save that has ended after its upload gave it at least one new
\* attachment has issued a create or an update that carries them
C35_UploadsAlwaysAttached ==
    \A i \in 1..Len(calls) :
        (Settled(calls[i]) /\ calls[i].newAttachments # <<>>)
        => /\ MutationsIssued(calls[i]) = 1
           /\ CarriesUploads(calls[i])

\* the same, for the saves whose listing did not fail
UploadsAttachedUnlessListingFails ==
    \A i \in 1..Len(calls) :
        ( /\ Settled(calls[i])
          /\ calls[i].newAttachments # <<>>
          /\ "list" \notin calls[i].faults )
        => /\ MutationsIssued(calls[i]) = 1
           /\ CarriesUploads(calls[i])

(***************************************************************************)
(* A container that is open in a view while a daily save appends to it.    *)
(***************************************************************************)
\* the view of record k of the store, as it was fetched
ViewOf(store, k) ==
    [ memo     |-> <<[name |-> store[k].name, content |-> store[k].content, timer |-> <<>>]>>,
      readonly |-> FALSE,
      millis   |-> 600,
      events   |-> <<>> ]

\* user 1 looks at the container of the day
InitShared ==
    /\ tz \in TimeZones
    /\ now = Instant(1, tz)
    /\ memos = EarlierStore(tz)
    /\ calls = <<>>
    /\ editor = EditorIdle
    /\ page = PageIdle
    /\ notes = NotesIdle
    /\ view = ViewOf(memos, 2)

SharedInputs ==
    { [service |-> "daily", user |-> 1, enabled |-> TRUE, state |-> PlainState] }

\* the update of event k reaches the record service, which writes the
\* fields of the mask; the view shows the answer
Written(k) ==
    /\ view.events[k].issued # <<>>
    /\ ~view.events[k].applied
    /\ \A j \in 1..(k - 1) : view.events[j].issued = <<>> \/ view.events[j].applied
    /\ LET request == view.events[k].issued[1]
           idx     == IndexOfName(memos, request.update.name)
           new     == updateMemo(memos[idx], request.update, request.updateMask,
                                 now, MaxCalls + k)
       IN  /\ memos' = [memos EXCEPT ![idx] = new]
           /\ view' = [view EXCEPT !.events[k].applied = TRUE,
                                   !.memo = <<[@[1] EXCEPT !.content = new.content]>>]
    /\ UNCHANGED <<now, tz, calls, editor, page, notes>>

NextShared ==
    \/ \E in \in SharedInputs : Save(in)
    \/ \E i \in 1..Len(calls) : UploadOk(i)
    \/ \E i \in 1..Len(calls) : ListServe(i)
    \/ \E i \in 1..Len(calls) : ListOk(i)
    \/ \E i \in 1..Len(calls) : MutateOk(i)
    \/ ChangeTask(0)
    \/ \E k \in 1..Len(view.events) : Written(k)

SpecShared == InitShared /\ [][NextShared]_vars

(***************************************************************************)
(* A checkbox toggle and an append to the same container.  Under           *)
(* SpecShared.                                                             *)
(***************************************************************************)
HasLine(content, line) ==
    \E n \in 1..Len(LinesOf(content)) : LinesOf(content)[n] = line

AllWritten ==
    \A k \in 1..Len(view.events) :
        view.events[k].issued = <<>> \/ view.events[k].applied

\* C36: when the saves and the toggles have completed, the line of every
\* save that appended to the container is in the container's content
C36_ToggleKeepsAppendedLine ==
    AllWritten =>
        \A i \in 1..Len(calls) :
            (IsDailySave(calls[i]) /\ calls[i].pc = "done"
                /\ calls[i].req[1].kind = "update")
            => HasLine(memos[IndexOfName(memos, calls[i].req[1].memo.name)].content,
                       Contribution(calls[i]))

\* a toggle sends the content it read with the marker of its task changed
\* and nothing else
ToggleChangesMarkerOnly ==
    \A k \in 1..Len(view.events) :
        (view.events[k].by = "task" /\ view.events[k].issued # <<>>)
        => LET old == LinesOf(view.events[k].read[1].content)
               new == LinesOf(view.events[k].issued[1].update.content)
           IN  /\ Len(new) = Len(old)
               /\ \A n \in 1..Len(old) :
                     \/ new[n] = old[n]
                     \/ /\ IsChecklistItem(old[n]) /\ IsChecklistItem(new[n])
                        /\ Slice(new[n], 5) = Slice(old[n], 5)

\* the toggle read the container before the save appended to it and was
\* written after: the appended line is gone
AppendedLineLost ==
    /\ AllWritten
    /\ Len(view.events) = 1
    /\ Len(calls) = 1 /\ calls[1].pc = "done" /\ calls[1].req[1].kind = "update"
    /\ memos[2].writers = <<0, 1, MaxCalls + 1>>
    /\ memos[2].content = TitleLine(Day1Key) \o <<"\n", "\n">> \o TodoDoneLower \o <<" ", "q">>

(***************************************************************************)
(* The duration shown and the pause.  Under SpecView.                      *)
(***************************************************************************)
\* the pauses sent so far of a timer that was read running
PauseEvents ==
    {k \in TimerEvents :
        /\ TimerOf(view.events[k].read[1]).isRunning
        /\ ~view.events[k].issued[1].update.timer.isRunning}

\* the clock values of the model from x on
LaterThan(x) ==
    {[whole |-> x.whole + s, thousandths |-> ms] :
        s \in 0..MaxElapsed, ms \in {0, 300, 600, 700}}

\* C37: the duration shown for a running timer at the time of a pause is
\* the accumulated seconds of the paused state, and the duration shown for
\* the paused state is that same value at every later time
C37_DurationKeptByPause ==
    \A k \in PauseEvents :
        LET e      == view.events[k]
            old    == TimerOf(e.read[1])
            paused == e.issued[1].update.timer
        IN  /\ calculateTimerDuration(e.at, old.lastStartTimestamp,
                                      old.accumulatedSeconds, TRUE)
                  = paused.accumulatedSeconds
            /\ \A t \in LaterThan(e.at) :
                  calculateTimerDuration(t, paused.lastStartTimestamp,
                                         paused.accumulatedSeconds, paused.isRunning)
                      = paused.accumulatedSeconds

\* a timer that showed 9 seconds was paused then, 1.3 seconds into the
\* model, and the pause has been written
C37_Witness ==
    \E k \in PauseEvents :
        /\ view.events[k].applied
        /\ view.events[k].at.thousandths = 300
        /\ view.events[k].issued[1].update.timer.accumulatedSeconds = 9
        /\ view.memo[1].timer =
              <<[accumulatedSeconds |-> 9, isRunning |-> FALSE, lastStartTimestamp |-> 0]>>

(***************************************************************************)
(* The timer over a sequence of changes.  Under SpecView.                  *)
(***************************************************************************)
\* the record as event k leaves it
After(k) ==
    IF view.events[k].issued = <<>> THEN view.events[k].read[1]
    ELSE applyUpdate(view.events[k].read[1], view.events[k].issued[1])

\* every handler has read the record as the handler before it left it
InSequence ==
    \A k \in 2..Len(view.events) : view.events[k].read[1] = After(k - 1)

\* the timer after the first k events
TimerAfter(k) ==
    IF k = 0 THEN TimerOf(view.events[1].read[1]) ELSE TimerOf(After(k))

Starts(k) == ~TimerAfter(k - 1).isRunning /\ TimerAfter(k).isRunning

Pauses(k) == TimerAfter(k - 1).isRunning /\ ~TimerAfter(k).isRunning

\* the second in which the timer was last started, up to event k
RECURSIVE StartedAt(_)
StartedAt(k) ==
    IF k = 0 THEN 0
    ELSE IF Starts(k) THEN FloorOf(view.events[k].at)
    ELSE StartedAt(k - 1)

\* the total length of the running intervals completed by the first k events
RECURSIVE CompletedRunning(_)
CompletedRunning(k) ==
    IF k = 0 THEN 0
    ELSE IF Pauses(k)
    THEN CompletedRunning(k - 1) + (FloorOf(view.events[k].at) - StartedAt(k - 1))
    ELSE CompletedRunning(k - 1)

\* C38: from a paused timer with accumulatedSeconds >= 0, along a sequence
\* of toggles and auto-pauses each computed from the state the one before
\* left, accumulatedSeconds never decreases and is the initial value plus
\* the length of the completed running intervals, and lastStartTimestamp
\* is 0 whenever the timer is paused
C38_TimerAccumulates ==
    ( /\ view.events # <<>>
      /\ InSequence
      /\ ~TimerAfter(0).isRunning
      /\ TimerAfter(0).lastStartTimestamp = 0
      /\ TimerAfter(0).accumulatedSeconds >= 0 )
    => \A k \in 1..Len(view.events) :
          /\ TimerAfter(k).accumulatedSeconds >= TimerAfter(k - 1).accumulatedSeconds
          /\ TimerAfter(k).accumulatedSeconds =
                TimerAfter(0).accumulatedSeconds + CompletedRunning(k)
          /\ ~TimerAfter(k).isRunning => TimerAfter(k).lastStartTimestamp = 0

\* a timer paused at 5 seconds was started, paused 1.4 seconds later by
\* checking a task, which counts as 2 seconds, and started again
C38_Witness ==
    /\ Len(view.events) = 3
    /\ InSequence
    /\ \A k \in 1..3 : view.events[k].applied
    /\ TimerAfter(0) =
          [accumulatedSeconds |-> 5, isRunning |-> FALSE, lastStartTimestamp |-> 0]
    /\ view.events[1].by = "timer" /\ Starts(1)
    /\ view.events[2].by = "task" /\ Pauses(2)
    /\ view.events[3].by = "timer" /\ Starts(3)
    /\ view.events[1].at.thousandths = 600
    /\ view.events[2].at = [whole |-> view.events[1].at.whole + 2, thousandths |-> 0]
    /\ CompletedRunning(3) = 2
    /\ view.memo[1].timer =
          << [ accumulatedSeconds |-> 7, isRunning |-> TRUE,
               lastStartTimestamp |-> view.events[3].at.whole ] >>

====
